---- MODULE Spec2Model ----
(***************************************************************************)
(* Model of the cosmic-core calculation layer of galactic-compass:         *)
(* the level catalog (CosmicLevels.js), the motion models (EarthRotation,  *)
(* EarthOrbit, CosmicMotion), the VectorSum class, the Coordinates         *)
(* functions, the top-level calculation API (CelestialCalculations.js)     *)
(* and the LevelManager; and of three pieces of the application around     *)
(* it: DeviceOrientation, CelestialRenderer.waitForTextureUpdate and the   *)
(* VisualizationModeManager.                                               *)
(*                                                                         *)
(* Units.  JavaScript numbers are modelled by integers:                    *)
(*   - velocities in m/s (EarthRotation rounds to 0.01 km/s);              *)
(*   - angles in degrees are whole degrees;                                *)
(*   - angles in radians are counted in quarter turns (1 = pi/2), so       *)
(*     Math.PI is 2 and toRadians/toDegrees are real conversions;          *)
(*   - dates are hours since 2000-01-01T12:00Z.                            *)
(* NaN is one reserved integer that every arithmetic operator propagates.  *)
(* Results of sqrt, atan2 and asin are kept as exact terms (records that   *)
(* hold the arguments) instead of rounded numbers.  Trigonometry is exact  *)
(* on the quarter-turn grid (the model has cos(pi/2) = 0, where IEEE       *)
(* doubles have 6e-17).                                                    *)
(***************************************************************************)
EXTENDS Integers, Sequences, FiniteSets, TLC

VARIABLES
  catalog,           \* COSMIC_LEVELS, the module-level array of level objects
  ret,               \* the last API call or query: its arguments and its outcome
  probe,             \* the call drawn at the start; in SpecRepeat, the call
                     \* whose first outcome is remembered
  memo,              \* history: that first outcome (NoMemo until it happens)
  lmMaxLevel,        \* LevelManager.maxLevel
  lmUIVisible,       \* LevelManager.isUIVisible
  vectorSum,         \* a VectorSum instance driven directly: [vectors, resultant]
  hostTimezone,      \* the host's local time zone, in hours east of UTC
  lmListeners,       \* LevelManager.listeners, callbacks in insertion order
  lmTrace,           \* history: the level last asked of setMaxLevel, the
                     \* listener calls it made and whether it threw
  deviceOrientation, \* a DeviceOrientation, the window's listener, and as
                     \* history the onReady calls and the events dispatched
  textureWait,       \* one call of CelestialRenderer.waitForTextureUpdate:
                     \* its closure, its timers, the callback's calls
  modeManager        \* a VisualizationModeManager and the browser's pending
                     \* animation frames

vars == <<catalog, ret, probe, memo, lmMaxLevel, lmUIVisible, vectorSum, hostTimezone,
          lmListeners, lmTrace, deviceOrientation, textureWait, modeManager>>

(***************************************************************************)
(* JavaScript values                                                       *)
(***************************************************************************)
NaN == 0 - 1000000000

Undefined == "<undefined>"

Null == [isNull |-> TRUE]

\* JavaScript truthiness of a string-or-undefined value ('' and undefined are falsy).
Truthy(s) == s \notin {"", Undefined}

\* obj.field, undefined when the property is absent.
Get(obj, field) == IF field \in DOMAIN obj THEN obj[field] ELSE Undefined

\* obj with obj.field = value, and obj after delete obj.field.
With(obj, field, value) ==
  [f \in DOMAIN obj \cup {field} |-> IF f = field THEN value ELSE obj[f]]

Without(obj, field) == [f \in DOMAIN obj \ {field} |-> obj[f]]

JsAdd(a, b) == IF a = NaN \/ b = NaN THEN NaN ELSE a + b

JsMul(a, b) == IF a = NaN \/ b = NaN THEN NaN ELSE a * b

JsNeg(a) == IF a = NaN THEN NaN ELSE 0 - a

\* Math.round(num / den) for den > 0: floor(x + 0.5).
MathRound(num, den) == (2 * num + den) \div (2 * den)

\* Math.sin / Math.cos of an angle in quarter turns.
MathSin(q) ==
  IF q = NaN THEN NaN ELSE CASE q % 4 = 0 -> 0 [] q % 4 = 1 -> 1 [] q % 4 = 2 -> 0 [] OTHER -> 0 - 1

MathCos(q) ==
  IF q = NaN THEN NaN ELSE CASE q % 4 = 0 -> 1 [] q % 4 = 1 -> 0 [] q % 4 = 2 -> 0 - 1 [] OTHER -> 0

\* Exact terms for irrational results.
NaNTerm == [nan |-> TRUE]

\* Math.sqrt(x*x + y*y + z*z)
MathSqrtSumSq(x, y, z) ==
  IF NaN \in {x, y, z} THEN NaNTerm ELSE [sqrtSumSq |-> <<x, y, z>>]

IsZeroTerm(t) == t = [sqrtSumSq |-> <<0, 0, 0>>]

\* Math.atan2(x, y); atan2(0, 0) is 0, not NaN.
MathAtan2(x, y) ==
  IF NaN \in {x, y} THEN NaNTerm ELSE [atan2 |-> <<x, y>>]

\* Math.asin(z / magnitude): 0/0 is NaN and asin(NaN) is NaN.
MathAsinRatio(z, magnitude) ==
  IF z = NaN \/ magnitude = NaNTerm \/ IsZeroTerm(magnitude)
  THEN NaNTerm
  ELSE [asin |-> <<z, magnitude>>]

(***************************************************************************)
(* Coordinates: unit conversions                                           *)
(***************************************************************************)
\* degrees * (Math.PI / 180), in quarter turns; exact on multiples of 90.
toRadians(degrees) == IF degrees = NaN THEN NaN ELSE degrees \div 90

\* radians / (Math.PI / 180), from quarter turns.
toDegrees(radians) == IF radians = NaN THEN NaN ELSE radians * 90

\* toDegrees of an exact term.
toDegreesTerm(t) == IF t = NaNTerm THEN NaNTerm ELSE [toDegrees |-> t]

(***************************************************************************)
(* VectorSum                                                               *)
(***************************************************************************)
\* One VectorSum instance kept by the module and reused by the next call,
\* instead of a new one per call.
SharedVectorSum ==
  IF ret.fn = "calculateVectorSum" /\ ~ret.outcome.threw
  THEN ret.outcome.value.vectorSum
  ELSE [vectors |-> <<>>, resultant |-> Null]

\* constructor: this.vectors = []; this.resultant = null
NewVectorSum == [vectors |-> <<>>, resultant |-> Null]

sphericalToCartesian(magnitude, azimuth, altitude) ==
  [x |-> JsMul(JsMul(magnitude, MathCos(altitude)), MathSin(azimuth)),
   y |-> JsMul(JsMul(magnitude, MathCos(altitude)), MathCos(azimuth)),
   z |-> JsMul(magnitude, MathSin(altitude))]

cartesianToSpherical(x, y, z) ==
  [magnitude |-> MathSqrtSumSq(x, y, z),
   azimuth   |-> MathAtan2(x, y),
   altitude  |-> MathAsinRatio(z, MathSqrtSumSq(x, y, z))]

\* sumX += vector.cartesian.x; sumY += ...; sumZ += ...
AddCartesian(sum, cartesian) ==
  [x |-> JsAdd(sum.x, cartesian.x),
   y |-> JsAdd(sum.y, cartesian.y),
   z |-> JsAdd(sum.z, cartesian.z)]

\* The forEach of calculateResultant from index i on: the componentwise sum
\* of the held Cartesian forms, sum holding the part already added.
RECURSIVE SumCartesian(_, _, _)
SumCartesian(vs, i, sum) ==
  IF i > Len(vs) THEN sum
  ELSE SumCartesian(vs, i + 1, AddCartesian(sum, vs[i].cartesian))

\* The object calculateResultant() builds from the sum and its spherical form.
ResultantOf(sum, spherical) ==
  [cartesian       |-> sum,
   magnitude       |-> spherical.magnitude,
   azimuth         |-> spherical.azimuth,
   altitude        |-> spherical.altitude,
   azimuthDegrees  |-> toDegreesTerm(spherical.azimuth),
   altitudeDegrees |-> toDegreesTerm(spherical.altitude)]

\* cartesianToSpherical(sumX, sumY, sumZ) and the resultant built from it.
ResultantOfSum(sum) == ResultantOf(sum, cartesianToSpherical(sum.x, sum.y, sum.z))

\* A calculateResultant that stores null for vectors that cancel.
calculateResultantNullOnZeroSum(vs) ==
  IF Len(vs) = 0 \/ SumCartesian(vs, 1, [x |-> 0, y |-> 0, z |-> 0])
                     = [x |-> 0, y |-> 0, z |-> 0]
  THEN Null
  ELSE ResultantOfSum(SumCartesian(vs, 1, [x |-> 0, y |-> 0, z |-> 0]))

\* calculateResultant(): the value it stores in this.resultant.
calculateResultant(vs) ==
  IF Len(vs) = 0 THEN Null
  ELSE ResultantOfSum(SumCartesian(vs, 1, [x |-> 0, y |-> 0, z |-> 0]))

\* this.vectors.push(vector); this.calculateResultant()
PushVector(self, vector) ==
  [vectors   |-> Append(self.vectors, vector),
   resultant |-> calculateResultant(Append(self.vectors, vector))]

\* addVector(name, magnitude, azimuth, altitude): push, then calculateResultant().
addVector(self, name, magnitude, azimuth, altitude) ==
  PushVector(self, [name      |-> name,
                    magnitude |-> magnitude,
                    azimuth   |-> azimuth,
                    altitude  |-> altitude,
                    cartesian |-> sphericalToCartesian(magnitude, azimuth, altitude)])

\* A clear() that empties the array and forgets to reset the resultant.
clearKeepingResultant(self) == [vectors |-> <<>>, resultant |-> self.resultant]

\* clear()
clear(self) == [vectors |-> <<>>, resultant |-> Null]

getResultant(self) == self.resultant

\* getVectors(): a copy of the array.
getVectors(self) == [i \in 1..Len(self.vectors) |-> self.vectors[i]]

\* getSummary(): counts, names and the rounded resultant.
getSummary(self) ==
  IF self.resultant = Null
  THEN [vectorCount |-> 0, resultant |-> Null]
  ELSE [vectorCount |-> Len(self.vectors),
        vectors     |-> [i \in 1..Len(self.vectors) |->
                           [name |-> self.vectors[i].name,
                            magnitude |-> self.vectors[i].magnitude]],
        resultant   |-> [magnitude |-> [round2 |-> self.resultant.magnitude],
                         azimuth   |-> [round2 |-> self.resultant.azimuthDegrees],
                         altitude  |-> [round2 |-> self.resultant.altitudeDegrees]]]

(***************************************************************************)
(* Observers and instants the callers pass in                              *)
(***************************************************************************)
\* new Date(NaN): an Invalid Date, whose time value is NaN.
InvalidDate == NaN

\* 2000-01-01T12:00Z and 2025-01-01T18:00Z, in hours since the former.
ValidDates == {0, 219174}

Dates == ValidDates \cup {InvalidDate}

\* <<latitude, longitude>> in degrees: equator, pole, a latitude beyond the
\* pole (outside [-90, 90]) and a second longitude.
Observers == {<<0, 0>>, <<90, 0>>, <<91, 0>>, <<0, 90>>}

\* The largest maxLevel a caller passes (callers pass 0..MaxLevelArg).
MaxLevelArg == 9

MaxLevels == 0..MaxLevelArg

\* Math.cos(latitude * Math.PI / 180) in millionths, for the latitudes in use.
MathCosDegE6(deg) ==
  LET a == IF deg < 0 THEN 0 - deg ELSE deg
  IN  CASE a = 0 -> 1000000 [] a = 15 -> 965926 [] a = 30 -> 866025
        [] a = 45 -> 707107 [] a = 60 -> 500000 [] a = 75 -> 258819
        [] a = 90 -> 0 [] a = 91 -> 0 - 17452

(***************************************************************************)
(* StellarCalculations.calculateStarLocation                               *)
(*                                                                         *)
(* The spherical trigonometry is over the reals.  The model keeps its      *)
(* values on the observers and instants above, rounded to the nearest      *)
(* quarter turn: each row is <<ra (1e-4 h), dec (1e-4 deg), lat, lon,      *)
(* date, altitude (deg), azimuth (deg)>> as the source computes it in      *)
(* IEEE doubles (NaN where Math.acos gets an argument beyond 1), on a host *)
(* whose local time is UTC (hostTimezone = 0).                             *)
(***************************************************************************)
StarRows ==
  {<<188167, 357983, 0, 0, 0, 90, 0>>, <<188167, 357983, 0, 0, 219174, 0, 270>>,
   <<188167, 357983, 90, 0, 0, 0, 90>>, <<188167, 357983, 90, 0, 219174, 0, 270>>,
   <<188167, 357983, 91, 0, 0, 0, 180>>, <<188167, 357983, 91, 0, 219174, 0, 270>>,
   <<188167, 357983, 0, 90, 0, 0, 270>>, <<188167, 357983, 0, 90, 219174, -90, 0>>,
   <<7560, 413600, 0, 0, 0, 0, 90>>, <<7560, 413600, 0, 0, 219174, 90, 0>>,
   <<7560, 413600, 90, 0, 0, 0, 90>>, <<7560, 413600, 90, 0, 219174, 0, 270>>,
   <<7560, 413600, 91, 0, 0, 0, 90>>, <<7560, 413600, 91, 0, 219174, 0, 180>>,
   <<7560, 413600, 0, 90, 0, 90, 0>>, <<7560, 413600, 0, 90, 219174, 0, 270>>,
   <<66490, 17000, 0, 0, 0, -90, 0>>, <<66490, 17000, 0, 0, 219174, 0, 90>>,
   <<66490, 17000, 90, 0, 0, NaN, NaN>>, <<66490, 17000, 90, 0, 219174, 0, 90>>,
   <<66490, 17000, 91, 0, 0, 0, 0>>, <<66490, 17000, 91, 0, 219174, 0, 90>>,
   <<66490, 17000, 0, 90, 0, 0, 90>>, <<66490, 17000, 0, 90, 219174, 90, 270>>,
   <<125140, 123900, 0, 0, 0, 0, 270>>, <<125140, 123900, 0, 0, 219174, -90, 0>>,
   <<125140, 123900, 90, 0, 0, 0, 270>>, <<125140, 123900, 90, 0, 219174, 0, 0>>,
   <<125140, 123900, 91, 0, 0, 0, 270>>, <<125140, 123900, 91, 0, 219174, 0, 0>>,
   <<125140, 123900, 0, 90, 0, -90, 0>>, <<125140, 123900, 0, 90, 219174, 0, 90>>,
   <<124810, -477000, 0, 0, 0, 0, 180>>, <<124810, -477000, 0, 0, 219174, 0, 180>>,
   <<124810, -477000, 90, 0, 0, -90, 270>>, <<124810, -477000, 90, 0, 219174, -90, 90>>,
   <<124810, -477000, 91, 0, 0, -90, 270>>, <<124810, -477000, 91, 0, 219174, -90, 0>>,
   <<124810, -477000, 0, 90, 0, 0, 180>>, <<124810, -477000, 0, 90, 219174, 0, 180>>,
   <<112000, -70000, 0, 0, 0, 0, 270>>, <<112000, -70000, 0, 0, 219174, -90, 90>>,
   <<112000, -70000, 90, 0, 0, 0, 270>>, <<112000, -70000, 90, 0, 219174, 0, 0>>,
   <<112000, -70000, 91, 0, 0, 0, 270>>, <<112000, -70000, 91, 0, 219174, 0, 0>>,
   <<112000, -70000, 0, 90, 0, -90, 90>>, <<112000, -70000, 0, 90, 219174, 0, 90>>,
   <<177611, -289920, 0, 0, 0, 90, 180>>, <<177611, -289920, 0, 0, 219174, 0, 270>>,
   <<177611, -289920, 90, 0, 0, 0, 270>>, <<177611, -289920, 90, 0, 219174, 0, 270>>,
   <<177611, -289920, 91, 0, 0, 0, 180>>, <<177611, -289920, 91, 0, 219174, 0, 270>>,
   <<177611, -289920, 0, 90, 0, 0, 270>>, <<177611, -289920, 0, 90, 219174, -90, 180>>,
   <<128100, 274000, 0, 0, 0, 0, 270>>, <<128100, 274000, 0, 0, 219174, -90, 0>>,
   <<128100, 274000, 90, 0, 0, 0, 270>>, <<128100, 274000, 90, 0, 219174, NaN, NaN>>,
   <<128100, 274000, 91, 0, 0, 0, 270>>, <<128100, 274000, 91, 0, 219174, 0, 0>>,
   <<128100, 274000, 0, 90, 0, -90, 0>>, <<128100, 274000, 0, 90, 219174, 0, 90>>,
   <<128573, 271283, 0, 0, 0, 0, 270>>, <<128573, 271283, 0, 0, 219174, -90, 0>>,
   <<128573, 271283, 90, 0, 0, 0, 270>>, <<128573, 271283, 90, 0, 219174, NaN, NaN>>,
   <<128573, 271283, 91, 0, 0, 0, 270>>, <<128573, 271283, 91, 0, 219174, 0, 0>>,
   <<128573, 271283, 0, 90, 0, -90, 0>>, <<128573, 271283, 0, 90, 219174, 0, 90>>}

\* Returns [altitude, azimuth] in degrees; every step is NaN for an Invalid Date.
calculateStarLocation(obsLatDeg, obsLonDeg, starRaHrs, starDecDeg, utcDatetime) ==
  IF utcDatetime = InvalidDate THEN <<NaN, NaN>>
  ELSE LET r == CHOOSE r \in StarRows :
                  /\ r[1] = starRaHrs /\ r[2] = starDecDeg
                  /\ r[3] = obsLatDeg /\ r[4] = obsLonDeg /\ r[5] = utcDatetime
       IN  <<r[6], r[7]>>

(***************************************************************************)
(* Motion models                                                           *)
(***************************************************************************)
\* EarthRotation: this.equatorialSpeed = 0.465 km/s, in m/s.
equatorialSpeed == 465

\* EarthOrbit: this.orbitalSpeed = 29.8 km/s, in m/s.
orbitalSpeed == 29800

\* A getVelocity that takes the cosine of the colatitude (0 at the equator).
EarthRotationGetVelocityOfColatitude(latitude, longitude) ==
  10 * MathRound(equatorialSpeed
                   * MathCosDegE6(90 - (IF latitude < 0 THEN 0 - latitude ELSE latitude)),
                 10000000)

\* EarthRotation.getVelocity: Math.round(equatorialSpeed * cos(latRad) * 100) / 100.
EarthRotationGetVelocity(latitude, longitude) ==
  10 * MathRound(equatorialSpeed * MathCosDegE6(latitude), 10000000)

\* EarthRotation.getDirection: { azimuth: Math.PI / 2, altitude: 0 }.
EarthRotationGetDirection(latitude, longitude, date) ==
  [azimuth |-> 1, altitude |-> 0]

\* A getVelocity that scales the orbital speed by the cosine of the latitude.
EarthOrbitGetVelocityAtLatitude(latitude, longitude) ==
  MathRound((orbitalSpeed \div 100) * MathCosDegE6(latitude), 10000)

\* EarthOrbit.getVelocity
EarthOrbitGetVelocity(latitude, longitude) == orbitalSpeed

\* Coordinates.equatorialToHorizontal for the ecliptic apex, as EarthOrbit.getDirection
\* computes its arguments: rows <<lat, lon, date, azimuth, altitude>> in quarter turns.
ApexRows ==
  {<<0, 0, 0, 3, 0>>, <<0, 0, 219174, 2, 1>>,
   <<90, 0, 0, 3, 0>>, <<90, 0, 219174, 0, 0>>,
   <<91, 0, 0, 3, 0>>, <<91, 0, 219174, 0, 0>>,
   <<0, 90, 0, 2, 1>>, <<0, 90, 219174, 1, 0>>}

ApexHorizontal(latitude, longitude, date) ==
  IF date = InvalidDate THEN [azimuth |-> NaN, altitude |-> NaN]
  ELSE LET r == CHOOSE r \in ApexRows :
                  r[1] = latitude /\ r[2] = longitude /\ r[3] = date
       IN  [azimuth |-> r[4], altitude |-> r[5]]

\* EarthOrbit.getDirection: the azimuth as is, the altitude negated.
EarthOrbitGetDirection(latitude, longitude, date) ==
  LET horizontal == ApexHorizontal(latitude, longitude, date)
  IN  [azimuth |-> horizontal.azimuth, altitude |-> JsNeg(horizontal.altitude)]

\* CosmicMotion.getVelocity: this.config.velocity.
CosmicMotionGetVelocity(config, latitude, longitude) == config.velocity

\* CosmicMotion.getDirection; reading config.coordinates.ra of a config without
\* coordinates is a TypeError.
CosmicMotionGetDirection(config, latitude, longitude, date) ==
  LET location == calculateStarLocation(latitude, longitude,
                    config.coordinates.ra, config.coordinates.dec, date)
  IN  [azimuth |-> toRadians(location[2]), altitude |-> toRadians(location[1])]

(***************************************************************************)
(* CosmicLevels.js: the catalog and its queries                            *)
(***************************************************************************)
\* Velocities in m/s; ra in 1e-4 hours, dec in 1e-4 degrees.  Only level 8
\* carries an isVerification property.
COSMIC_LEVELS ==
  << [level |-> 1, id |-> "earthRotation", name |-> "Earth Rotation",
      velocity |-> 465,
      coordinates |-> [type |-> "fixed", azimuth |-> 1, altitude |-> 0],
      implemented |-> TRUE, motionClass |-> "EarthRotation", bodyId |-> "earthRotation"],
     [level |-> 2, id |-> "earthOrbit", name |-> "Earth's Orbit Around Sun",
      velocity |-> 29800,
      coordinates |-> [type |-> "calculated"],
      implemented |-> TRUE, motionClass |-> "EarthOrbit", bodyId |-> "earthOrbit"],
     [level |-> 3, id |-> "solarOrbit", name |-> "Solar System's Galactic Orbit",
      velocity |-> 220000,
      coordinates |-> [type |-> "radec", ra |-> 188167, dec |-> 357983],
      implemented |-> TRUE, motionClass |-> "CosmicMotion", bodyId |-> "solarOrbit"],
     [level |-> 4, id |-> "localGroupMotion", name |-> "Milky Way in Local Group",
      velocity |-> 62000,
      coordinates |-> [type |-> "radec", ra |-> 7560, dec |-> 413600],
      implemented |-> TRUE, motionClass |-> "CosmicMotion", bodyId |-> "localGroupMotion"],
     [level |-> 5, id |-> "localVoidPush", name |-> "Local Void Push",
      velocity |-> 259000,
      coordinates |-> [type |-> "radec", ra |-> 66490, dec |-> 17000],
      implemented |-> TRUE, motionClass |-> "CosmicMotion", bodyId |-> "localVoidPush"],
     [level |-> 6, id |-> "virgoPull", name |-> "Virgo Cluster Pull",
      velocity |-> 185000,
      coordinates |-> [type |-> "radec", ra |-> 125140, dec |-> 123900],
      implemented |-> TRUE, motionClass |-> "CosmicMotion", bodyId |-> "virgoPull"],
     [level |-> 7, id |-> "largeScaleFlow", name |-> "Large-Scale Flow",
      velocity |-> 455000,
      coordinates |-> [type |-> "radec", ra |-> 124810, dec |-> 0 - 477000],
      implemented |-> TRUE, motionClass |-> "CosmicMotion", bodyId |-> "largeScaleFlow"],
     [level |-> 8, id |-> "cmbDipole", name |-> "CMB Dipole / Cosmic Rest Frame",
      velocity |-> 369820, isVerification |-> TRUE,
      coordinates |-> [type |-> "radec", ra |-> 112000, dec |-> 0 - 70000],
      implemented |-> TRUE, motionClass |-> "CosmicMotion", bodyId |-> "cmbDipoleMotion"] >>

\* Array.prototype.filter: the elements that satisfy Test, in array order.
\* getCosmicLevelByNumber: COSMIC_LEVELS.find(level => level.level === levelNumber)
getCosmicLevelByNumber(levels, levelNumber) ==
  IF \E i \in 1..Len(levels) : levels[i].level = levelNumber
  THEN levels[CHOOSE i \in 1..Len(levels) :
                /\ levels[i].level = levelNumber
                /\ \A j \in 1..(i - 1) : levels[j].level # levelNumber]
  ELSE Undefined

getImplementedLevels(levels) ==
  LET Test(level) == level.implemented IN SelectSeq(levels, Test)

getUnimplementedLevels(levels) ==
  LET Test(level) == ~level.implemented IN SelectSeq(levels, Test)

\* A getLevelsUpTo that leaves out the level equal to maxLevel.
getLevelsBelow(levels, maxLevel) ==
  LET Test(level) == level.level < maxLevel IN SelectSeq(levels, Test)

getLevelsUpTo(levels, maxLevel) ==
  LET Test(level) == level.level <= maxLevel IN SelectSeq(levels, Test)

(***************************************************************************)
(* Calls that may throw                                                    *)
(***************************************************************************)
Return(v) == [threw |-> FALSE, value |-> v]

Throw(t) == [threw |-> TRUE, thrown |-> t]

TypeError(message) == [type |-> "TypeError", message |-> message]

RangeError(message) == [type |-> "RangeError", message |-> message]

\* error.message in a catch block: reading a property of null or undefined
\* throws; a thrown value without a message property gives undefined.
MessageOf(thrown) ==
  IF thrown.type \in {"null", "undefined"}
  THEN Throw(TypeError("Cannot read properties of " \o thrown.type \o " (reading 'message')"))
  ELSE Return(Get(thrown, "message"))

(***************************************************************************)
(* Motion model instances: new level.motionClass(level) and its methods    *)
(***************************************************************************)
\* constructor() of EarthRotation and of EarthOrbit: the config is not kept.
EarthRotationConstructor(config) == [class |-> "EarthRotation"]

EarthOrbitConstructor(config) == [class |-> "EarthOrbit"]

\* A constructor that marks the config it receives.
CosmicMotionConstructorMarking(config) ==
  [class |-> "CosmicMotion", config |-> With(config, "instantiated", TRUE)]

\* CosmicMotion.constructor: this.config = config, the catalog entry itself.
CosmicMotionConstructor(config) == [class |-> "CosmicMotion", config |-> config]

\* A motion class that throws level.thrown in level.throwsIn (a test double:
\* the catalog binds any class that has the two methods).
FaultyMotionConstructor(config) == [class |-> "FaultyMotion", config |-> config]

NewMotion(level) ==
  CASE level.motionClass = "EarthRotation" -> Return(EarthRotationConstructor(level))
    [] level.motionClass = "EarthOrbit"    -> Return(EarthOrbitConstructor(level))
    [] level.motionClass = "CosmicMotion"  -> Return(CosmicMotionConstructor(level))
    [] level.motionClass = "FaultyMotion"  ->
         IF level.throwsIn = "constructor" THEN Throw(level.thrown)
         ELSE Return(FaultyMotionConstructor(level))

\* The catalog entry as the call leaves it: an instance that keeps the config
\* holds the entry itself, not a copy.
ConfigAfter(level, instance) ==
  IF "config" \in DOMAIN instance THEN instance.config ELSE level

getVelocity(instance, latitude, longitude) ==
  CASE instance.class = "EarthRotation" -> Return(EarthRotationGetVelocity(latitude, longitude))
    [] instance.class = "EarthOrbit"    -> Return(EarthOrbitGetVelocity(latitude, longitude))
    [] instance.class = "CosmicMotion"  ->
         Return(CosmicMotionGetVelocity(instance.config, latitude, longitude))
    [] instance.class = "FaultyMotion"  ->
         IF instance.config.throwsIn = "getVelocity" THEN Throw(instance.config.thrown)
         ELSE Return(instance.config.velocity)

getDirection(instance, latitude, longitude, date) ==
  CASE instance.class = "EarthRotation" ->
         Return(EarthRotationGetDirection(latitude, longitude, date))
    [] instance.class = "EarthOrbit" ->
         Return(EarthOrbitGetDirection(latitude, longitude, date))
    [] instance.class = "CosmicMotion" ->
         IF "coordinates" \notin DOMAIN instance.config
         THEN Throw(TypeError("Cannot read properties of undefined (reading 'ra')"))
         ELSE Return(CosmicMotionGetDirection(instance.config, latitude, longitude, date))
    [] instance.class = "FaultyMotion" ->
         IF instance.config.throwsIn = "getDirection" THEN Throw(instance.config.thrown)
         ELSE Return(EarthRotationGetDirection(latitude, longitude, date))

(***************************************************************************)
(* CelestialCalculations.js                                                *)
(***************************************************************************)
\* A skip test that also skips the verification level.
IsSkippedOrVerification(level) ==
  \/ ~level.implemented
  \/ "motionClass" \notin DOMAIN level
  \/ ("isVerification" \in DOMAIN level /\ level.isVerification)

\* A skip test that forgets the implemented flag.
IsSkippedUnboundOnly(level) == "motionClass" \notin DOMAIN level

\* if (!level.implemented || !level.motionClass)
IsSkipped(level) == ~level.implemented \/ "motionClass" \notin DOMAIN level

\* The not-implemented branch of calculateMotionVectors.
NotImplementedEntry(level) ==
  [level |-> level.level, name |-> level.name,
   implemented |-> FALSE, error |-> "Not implemented"]

\* The object pushed at the end of the try block.
VectorEntry(level, velocity, direction) ==
  [level |-> level.level, name |-> level.name, id |-> level.id,
   bodyId |-> level.bodyId, velocity |-> velocity,
   direction |-> [azimuth |-> direction.azimuth,
                  altitude |-> direction.altitude,
                  azimuthDegrees |-> toDegrees(direction.azimuth),
                  altitudeDegrees |-> toDegrees(direction.altitude)],
   implemented |-> TRUE,
   isVerification |-> ("isVerification" \in DOMAIN level /\ level.isVerification),
   motionClass |-> level.motionClass]

\* The object pushed by the catch block.
CaughtEntry(level, message) ==
  [level |-> level.level, name |-> level.name,
   implemented |-> level.implemented, error |-> message]

\* The try block after both calls: the entry, unless one of them threw
\* (getVelocity is called first).
TryCalls(level, config, velocity, direction) ==
  IF velocity.threw
  THEN [threw |-> TRUE, thrown |-> velocity.thrown, config |-> config]
  ELSE IF direction.threw
  THEN [threw |-> TRUE, thrown |-> direction.thrown, config |-> config]
  ELSE [threw |-> FALSE,
        value |-> VectorEntry(level, velocity.value, direction.value),
        config |-> config]

\* The try block after new level.motionClass(level).
TryConstructed(level, made, lat, lon, date) ==
  IF made.threw THEN [threw |-> TRUE, thrown |-> made.thrown, config |-> level]
  ELSE TryCalls(level, ConfigAfter(level, made.value),
                getVelocity(made.value, lat, lon),
                getDirection(made.value, lat, lon, date))

\* The try block for one level: [threw, value | thrown, config], config being
\* the catalog entry as the block leaves it.
TryLevel(level, lat, lon, date) ==
  TryConstructed(level, NewMotion(level), lat, lon, date)

\* The catch block: error.message may itself throw.
CatchBlock(level, config, message) ==
  IF message.threw
  THEN [threw |-> TRUE, thrown |-> message.thrown, config |-> config]
  ELSE [threw |-> FALSE, value |-> CaughtEntry(level, message.value), config |-> config]

\* try { ... } catch (error) { ... } around the outcome t of the try block.
TryCatch(level, t) ==
  IF ~t.threw THEN t ELSE CatchBlock(level, t.config, MessageOf(t.thrown))

\* One iteration of COSMIC_LEVELS.forEach: what it pushes (or throws past the
\* catch block) and the catalog entry afterwards.
LevelStep(level, lat, lon, date) ==
  IF IsSkipped(level)
  THEN [threw |-> FALSE, value |-> NotImplementedEntry(level), config |-> level]
  ELSE TryCatch(level, TryLevel(level, lat, lon, date))

\* The forEach from index i on, motionVectors holding what was pushed so far.
RECURSIVE MotionVectorsLoop(_, _, _, _, _, _)
RECURSIVE MotionVectorsStep(_, _, _, _, _, _, _)
MotionVectorsStep(levels, i, lat, lon, date, motionVectors, step) ==
  IF step.threw
  THEN [threw |-> TRUE, thrown |-> step.thrown,
        levels |-> [levels EXCEPT ![i] = step.config]]
  ELSE MotionVectorsLoop([levels EXCEPT ![i] = step.config], i + 1, lat, lon, date,
                         Append(motionVectors, step.value))

MotionVectorsLoop(levels, i, lat, lon, date, motionVectors) ==
  IF i > Len(levels)
  THEN [threw |-> FALSE, value |-> motionVectors, levels |-> levels]
  ELSE MotionVectorsStep(levels, i, lat, lon, date, motionVectors,
                         LevelStep(levels[i], lat, lon, date))

\* calculateMotionVectors(lat, lon, date) over the catalog `levels`:
\* [threw, value | thrown, levels], levels being the catalog afterwards.
calculateMotionVectors(levels, lat, lon, date) ==
  MotionVectorsLoop(levels, 1, lat, lon, date, <<>>)

\* A filter without the isVerification test.
IsActiveVectorWithVerification(vector, maxLevel) ==
  /\ vector.level <= maxLevel
  /\ vector.implemented
  /\ ~Truthy(Get(vector, "error"))

\* The filter of calculateVectorSum.
IsActiveVector(vector, maxLevel) ==
  /\ vector.level <= maxLevel
  /\ vector.implemented
  /\ ~Truthy(Get(vector, "error"))
  /\ ~("isVerification" \in DOMAIN vector /\ vector.isVerification)

\* motionVectors.filter(...)
ActiveVectors(motionVectors, maxLevel) ==
  LET Test(vector) == IsActiveVector(vector, maxLevel)
  IN  SelectSeq(motionVectors, Test)

\* activeVectors.forEach(vector => vectorSum.addVector(...)) from index i on.
RECURSIVE AddActiveVectors(_, _, _)
AddActiveVectors(self, activeVectors, i) ==
  IF i > Len(activeVectors) THEN Return(self)
  ELSE IF "direction" \notin DOMAIN activeVectors[i]
  THEN Throw(TypeError("Cannot read properties of undefined (reading 'azimuth')"))
  ELSE AddActiveVectors(
         addVector(self, activeVectors[i].name, activeVectors[i].velocity,
                   activeVectors[i].direction.azimuth,
                   activeVectors[i].direction.altitude),
         activeVectors, i + 1)

\* The object calculateVectorSum returns, unless an addVector call threw.
VectorSumResult(levels, motionVectors, activeVectors, maxLevel, summed) ==
  IF summed.threw
  THEN [threw |-> TRUE, thrown |-> summed.thrown, levels |-> levels]
  ELSE [threw |-> FALSE,
        value |-> [vectorSum     |-> summed.value,
                   resultant     |-> getResultant(summed.value),
                   summary       |-> getSummary(summed.value),
                   activeVectors |-> activeVectors,
                   motionVectors |-> motionVectors,
                   maxLevel      |-> maxLevel],
        levels |-> levels]

\* calculateVectorSum after its motionVectors and its activeVectors.
SumActiveVectors(levels, motionVectors, activeVectors, maxLevel) ==
  VectorSumResult(levels, motionVectors, activeVectors, maxLevel,
                  AddActiveVectors(NewVectorSum, activeVectors, 1))

\* calculateVectorSum after its call of calculateMotionVectors.
VectorSumOf(made, maxLevel) ==
  IF made.threw THEN made
  ELSE SumActiveVectors(made.levels, made.value,
                        ActiveVectors(made.value, maxLevel), maxLevel)

\* calculateVectorSum(lat, lon, date, maxLevel)
calculateVectorSum(levels, lat, lon, date, maxLevel) ==
  VectorSumOf(calculateMotionVectors(levels, lat, lon, date), maxLevel)

(***************************************************************************)
(* Celestial positions                                                     *)
(***************************************************************************)
\* The hour angle of the Sun, in quarter turns, on the model's grid of dates
\* and longitudes (date 0 is a noon at longitude 0).
SolarQuadrant(date, lon) == ((date + lon \div 15) % 24) \div 6

\* SunCalc.getPosition(date, lat, lon): azimuth from south, altitude; an
\* Invalid Date gives NaN and no exception.
SunCalcGetPosition(date, lat, lon) ==
  IF date = InvalidDate THEN [azimuth |-> NaN, altitude |-> NaN]
  ELSE LET q == SolarQuadrant(date, lon) IN
       [azimuth  |-> q,
        altitude |-> IF lat >= 90 THEN 0 ELSE MathCos(q)]

\* SunCalc.getMoonPosition(date, lat, lon): a quarter turn east of the Sun.
SunCalcGetMoonPosition(date, lat, lon) ==
  IF date = InvalidDate THEN [azimuth |-> NaN, altitude |-> NaN]
  ELSE LET q == (SolarQuadrant(date, lon) + 3) % 4 IN
       [azimuth  |-> q,
        altitude |-> IF lat >= 90 THEN 0 ELSE MathCos(q)]

\* Math.pow(Math.sin(d / 2), 2) for d degrees, in halves.
HaversineHalves(d) ==
  CASE d % 360 = 0 -> 0 [] d % 360 = 180 -> 2 [] OTHER -> 1

\* Coordinates.angleBetweenPoints, degrees in and out.
angleBetweenPoints(az1, alt1, az2, alt2) ==
  IF NaN \in {az1, alt1, az2, alt2} THEN NaN
  ELSE LET haversineAlt == HaversineHalves(alt2 - alt1)
           haversineAz  == HaversineHalves(az2 - az1)
           h == haversineAlt
                + MathCos(toRadians(alt1)) * MathCos(toRadians(alt2)) * haversineAz
       IN  CASE h = 0 -> 0 [] h = 1 -> 90 [] h = 2 -> 180 [] OTHER -> NaN

\* GalacticCenter.currentMilkyWayPosition: [azimuth, altitude, angle] of Sgr A*.
currentMilkyWayPosition(lat, lon, utcDatetime) ==
  LET sagAPos  == calculateStarLocation(lat, lon, 177611, 0 - 289920, utcDatetime)
      com31Pos == calculateStarLocation(lat, lon, 128100, 274000, utcDatetime)
      below    == sagAPos[1] # NaN /\ sagAPos[1] < 0
      galacticNorthPoleAz  == IF below THEN sagAPos[2] ELSE JsAdd(sagAPos[2], 180)
      galacticNorthPoleAlt == IF below THEN JsAdd(90, sagAPos[1])
                              ELSE JsAdd(90, JsNeg(sagAPos[1]))
      angle == angleBetweenPoints(galacticNorthPoleAz, galacticNorthPoleAlt,
                                  com31Pos[2], com31Pos[1])
  IN  <<sagAPos[2], sagAPos[1], angle>>

\* date.toISOString(): a RangeError for an Invalid Date.
toISOString(date) ==
  IF date = InvalidDate THEN Throw(RangeError("Invalid time value"))
  ELSE Return([iso |-> date])

\* A calculateCelestialPositions that hands on the Sun's azimuth as SunCalc
\* gives it, counted from south.
calculateCelestialPositionsSouthBased(lat, lon, date) ==
  LET sunLoc  == SunCalcGetPosition(date, lat, lon)
      moonLoc == SunCalcGetMoonPosition(date, lat, lon)
      iso     == toISOString(date)
  IN  IF iso.threw THEN iso
      ELSE Return(
        [sun  |-> [azimuth |-> sunLoc.azimuth,
                   altitude |-> sunLoc.altitude,
                   source |-> "SunCalc.getPosition"],
         moon |-> [azimuth |-> JsAdd(moonLoc.azimuth, 2),
                   altitude |-> moonLoc.altitude,
                   source |-> "SunCalc.getMoonPosition"],
         debug |-> [inputDate |-> iso.value,
                    location |-> [latitude |-> lat, longitude |-> lon]]])

\* calculateCelestialPositions(lat, lon, date)
calculateCelestialPositions(lat, lon, date) ==
  LET sunLoc            == SunCalcGetPosition(date, lat, lon)
      moonLoc           == SunCalcGetMoonPosition(date, lat, lon)
      galacticRotations == currentMilkyWayPosition(lat, lon, date)
      galacticNorthPole == calculateStarLocation(lat, lon, 128573, 271283, date)
      iso               == toISOString(date)
  IN  IF iso.threw THEN iso
      ELSE Return(
        [sun  |-> [azimuth |-> JsAdd(sunLoc.azimuth, 2),
                   altitude |-> sunLoc.altitude,
                   source |-> "SunCalc.getPosition"],
         moon |-> [azimuth |-> JsAdd(moonLoc.azimuth, 2),
                   altitude |-> moonLoc.altitude,
                   source |-> "SunCalc.getMoonPosition"],
         galacticCenter |-> [rotations |-> galacticRotations,
                             source |-> "GalacticCenter.currentMilkyWayPosition"],
         galacticNorthPole |-> [rotations |-> <<galacticNorthPole[2], galacticNorthPole[1]>>,
                                source |-> "StellarCalculations.calculateStarLocation"],
         debug |-> [inputDate |-> iso.value,
                    location |-> [latitude |-> lat, longitude |-> lon]]])

\* The object calculateAll returns, unless one of its three calls threw
\* (they run in property order).
AllResult(lat, lon, date, maxLevel, celestialBodies, motionVectors, summed) ==
  IF motionVectors.threw THEN motionVectors
  ELSE IF summed.threw THEN summed
  ELSE [threw |-> FALSE,
        value |-> [input |-> [latitude |-> lat, longitude |-> lon,
                              date |-> date, maxLevel |-> maxLevel],
                   celestialBodies |-> celestialBodies.value,
                   motionVectors   |-> motionVectors.value,
                   vectorSum       |-> summed.value],
        levels |-> summed.levels]

\* calculateAll after its call of calculateCelestialPositions.
AllAfterCelestial(levels, lat, lon, date, maxLevel, celestialBodies, motionVectors) ==
  IF celestialBodies.threw
  THEN [threw |-> TRUE, thrown |-> celestialBodies.thrown, levels |-> levels]
  ELSE AllResult(lat, lon, date, maxLevel, celestialBodies, motionVectors,
                 calculateVectorSum(motionVectors.levels, lat, lon, date, maxLevel))

\* calculateAll(lat, lon, date, maxLevel)
calculateAll(levels, lat, lon, date, maxLevel) ==
  AllAfterCelestial(levels, lat, lon, date, maxLevel,
                    calculateCelestialPositions(lat, lon, date),
                    calculateMotionVectors(levels, lat, lon, date))

(***************************************************************************)
(* LevelManager                                                            *)
(***************************************************************************)
\* setMaxLevel: const newLevel = Math.max(1, Math.min(8, level))
ClampLevel(level) == IF level < 1 THEN 1 ELSE IF level > 8 THEN 8 ELSE level

\* getActiveLevels(): getLevelsUpTo(this.maxLevel)
getActiveLevels(levels, maxLevel) == getLevelsUpTo(levels, maxLevel)

\* getActiveImplementedLevels(): the active levels whose implemented is true
getActiveImplementedLevels(levels, maxLevel) ==
  LET Test(level) == level.implemented
  IN  SelectSeq(getActiveLevels(levels, maxLevel), Test)

isLevelActive(levelNumber, maxLevel) == levelNumber <= maxLevel

\* A setMaxLevel that stores the level as given.
setMaxLevelUnclamped(maxLevel, level) == level

\* setMaxLevel(level): the maxLevel it leaves.
setMaxLevel(maxLevel, level) ==
  LET newLevel == ClampLevel(level)
  IN  IF newLevel # maxLevel THEN newLevel ELSE maxLevel

\* The level-change callbacks that throw when called; every other callback
\* returns.
ThrowingListeners == {"t"}

\* A notifyLevelChange without its try / catch: the first exception ends the
\* forEach and leaves the method.
notifyLevelChangeUncaught(listeners, oldLevel, newLevel, maxLevel) ==
  LET Stops(i) == \E j \in 1..(i - 1) : listeners[j] \in ThrowingListeners
      n == Cardinality({i \in 1..Len(listeners) : ~Stops(i)})
  IN  [calls |-> [i \in 1..n |->
                    [callback |-> listeners[i], args |-> <<oldLevel, newLevel>>,
                     maxLevel |-> maxLevel,
                     threw |-> listeners[i] \in ThrowingListeners]],
       threw |-> \E i \in 1..Len(listeners) : listeners[i] \in ThrowingListeners]

\* notifyLevelChange(oldLevel, newLevel), maxLevel being this.maxLevel while
\* it runs: the calls it makes, in the Set's insertion order, each in a
\* try / catch, and whether it throws.
notifyLevelChange(listeners, oldLevel, newLevel, maxLevel) ==
  [calls |-> [i \in 1..Len(listeners) |->
                [callback |-> listeners[i], args |-> <<oldLevel, newLevel>>,
                 maxLevel |-> maxLevel,
                 threw |-> listeners[i] \in ThrowingListeners]],
   threw |-> FALSE]

\* A setMaxLevel that notifies whether or not the level changes.
setMaxLevelNotifyingAlways(listeners, maxLevel, level) ==
  notifyLevelChange(listeners, maxLevel, ClampLevel(level), ClampLevel(level))

\* setMaxLevel(level): the notification it makes, after this.maxLevel =
\* newLevel.
setMaxLevelNotification(listeners, maxLevel, level) ==
  LET newLevel == ClampLevel(level)
  IN  IF newLevel # maxLevel
      THEN notifyLevelChange(listeners, maxLevel, newLevel, newLevel)
      ELSE [calls |-> <<>>, threw |-> FALSE]

\* toggleUI(), showUI(), hideUI(): the isUIVisible they leave.
toggleUI(isUIVisible) == ~isUIVisible

showUI(isUIVisible) == IF ~isUIVisible THEN toggleUI(isUIVisible) ELSE isUIVisible

hideUI(isUIVisible) == IF isUIVisible THEN toggleUI(isUIVisible) ELSE isUIVisible

(***************************************************************************)
(* Catalogs other than the shipped one: a level that is not implemented,   *)
(* has no class bound, lacks coordinates, or is bound to a throwing class  *)
(***************************************************************************)
ThrownValues ==
  {[type |-> "Error", message |-> "boom"],
   [type |-> "Error", message |-> ""],
   [type |-> "string", value |-> "boom"],
   [type |-> "null"]}

ThrowSites == {"constructor", "getVelocity", "getDirection"}

FaultyLevel(level, throwsIn, thrown) ==
  With(With(With(level, "motionClass", "FaultyMotion"), "throwsIn", throwsIn),
       "thrown", thrown)

LevelVariants(level) ==
  {With(level, "implemented", FALSE)}
  \cup {Without(level, "motionClass")}
  \cup {Without(With(level, "motionClass", "CosmicMotion"), "coordinates")}
  \cup {FaultyLevel(level, s, t) : s \in ThrowSites, t \in ThrownValues}
  \cup {With(FaultyLevel(level, "constructor", t), "implemented", FALSE) :
          t \in ThrownValues}

VariantLevels == {1, 3}

CatalogVariants ==
  {COSMIC_LEVELS}
  \cup UNION {{[COSMIC_LEVELS EXCEPT ![k] = v] : v \in LevelVariants(COSMIC_LEVELS[k])} :
                k \in VariantLevels}

(***************************************************************************)
(* DeviceOrientation                                                       *)
(*                                                                         *)
(* The record holds the object's fields, whether window has                *)
(* boundHandleOrientation among its deviceorientation listeners, and as    *)
(* history the calls of onReady and the number of events dispatched.  A    *)
(* null callback is the string "null"; an event without                    *)
(* webkitCompassHeading is a record without that field.                    *)
(***************************************************************************)
\* constructor()
NewDeviceOrientation ==
  [compassAttempts |-> 0, isCalibrated |-> FALSE, onReadyCallback |-> "null",
   listening |-> FALSE, readyCalls |-> <<>>, events |-> 0]

\* startCalibration(onReady); addEventListener ignores a listener that is
\* already registered.
startCalibration(self, onReady) ==
  [self EXCEPT !.onReadyCallback = onReady, !.listening = TRUE]

\* heading == undefined || isNaN(heading) || heading === 0
IsWaitingHeading(evt) ==
  \/ "webkitCompassHeading" \notin DOMAIN evt
  \/ evt.webkitCompassHeading = NaN
  \/ evt.webkitCompassHeading = 0

\* A handleOrientation that leaves its listener registered.
handleOrientationKeepingListener(self, evt) ==
  IF IsWaitingHeading(evt)
  THEN [self EXCEPT !.compassAttempts = @ + 1]
  ELSE [self EXCEPT !.compassAttempts = @ + 1,
                    !.isCalibrated = TRUE,
                    !.readyCalls = IF self.onReadyCallback # "null"
                                   THEN Append(@, [callback |-> self.onReadyCallback,
                                                   heading |-> evt.webkitCompassHeading])
                                   ELSE @]

\* handleOrientation(evt)
handleOrientation(self, evt) ==
  IF IsWaitingHeading(evt)
  THEN [self EXCEPT !.compassAttempts = @ + 1]
  ELSE [self EXCEPT !.compassAttempts = @ + 1,
                    !.listening = FALSE,
                    !.isCalibrated = TRUE,
                    !.readyCalls = IF self.onReadyCallback # "null"
                                   THEN Append(@, [callback |-> self.onReadyCallback,
                                                   heading |-> evt.webkitCompassHeading])
                                   ELSE @]

(***************************************************************************)
(* CelestialRenderer.waitForTextureUpdate                                  *)
(*                                                                         *)
(* The record holds the closure of one call (timeoutTriggered,             *)
(* checkCount), the timers it has pending (the next checkTexture, the      *)
(* fallback, the delayed callback(true)), the texture of the skybox        *)
(* material, and as history the values the callback was called with.       *)
(***************************************************************************)
\* Before the call: no timers, and a skybox material without a texture.
NoTextureWait ==
  [called |-> FALSE, timeoutTriggered |-> FALSE, checkCount |-> 0,
   checkPending |-> FALSE, fallbackPending |-> FALSE, hiResPending |-> FALSE,
   texture |-> "none", callbacks |-> <<>>]

\* waitForTextureUpdate(callback, timeout): nothing without a skybox;
\* otherwise setTimeout(checkTexture, 100) and the fallback setTimeout.
waitForTextureUpdate(self, skybox) ==
  IF ~skybox THEN [self EXCEPT !.called = TRUE]
  ELSE [self EXCEPT !.called = TRUE, !.checkPending = TRUE, !.fallbackPending = TRUE]

\* checkTexture, run by its timer.  The texture is "none" (no material, map
\* or image yet), "lowres", "hires" (src includes '8k' or is a long data
\* URL) or "nosrc" (an image without src, on which src.includes throws and
\* ends the function before it sets its next timer).
checkTexture(self) ==
  IF self.timeoutTriggered THEN [self EXCEPT !.checkPending = FALSE]
  ELSE IF self.texture = "nosrc"
  THEN [self EXCEPT !.checkCount = @ + 1, !.checkPending = FALSE]
  ELSE IF self.texture = "hires"
  THEN [self EXCEPT !.checkCount = @ + 1, !.checkPending = FALSE,
                    !.timeoutTriggered = TRUE, !.hiResPending = TRUE]
  ELSE [self EXCEPT !.checkCount = @ + 1]

\* The timer set on detection: callback(true).
hiResTimeout(self) ==
  [self EXCEPT !.hiResPending = FALSE, !.callbacks = Append(@, TRUE)]

\* A fallback timer without its test of timeoutTriggered.
fallbackTimeoutUnguarded(self) ==
  [self EXCEPT !.fallbackPending = FALSE, !.timeoutTriggered = TRUE,
               !.callbacks = Append(@, FALSE)]

\* The fallback timer: if (!timeoutTriggered) { timeoutTriggered = true;
\* callback(false) }
fallbackTimeout(self) ==
  IF self.timeoutTriggered THEN [self EXCEPT !.fallbackPending = FALSE]
  ELSE [self EXCEPT !.fallbackPending = FALSE, !.timeoutTriggered = TRUE,
                    !.callbacks = Append(@, FALSE)]

(***************************************************************************)
(* VisualizationModeManager                                                *)
(*                                                                         *)
(* The record holds the names in this.modes and this.activeModes,          *)
(* animationFrameId (0 stands for null: the ids requestAnimationFrame      *)
(* returns are positive), the ids of the frame callbacks the browser has   *)
(* pending, and the number of ids given out.  The modes are the ones       *)
(* script.js registers, each under its own name.                           *)
(***************************************************************************)
\* constructor(uiControls)
NewModeManager ==
  [modes |-> {}, activeModes |-> {}, animationFrameId |-> 0,
   scheduled |-> {}, frames |-> 0]

\* mode.needsAnimation: true in ParticlesMode, false in MarkersMode and
\* DistanceMode.
needsAnimation(name) == name = "particles"

\* this.animationFrameId = requestAnimationFrame(tick)
RequestAnimationFrame(self) ==
  [self EXCEPT !.frames = @ + 1,
               !.animationFrameId = self.frames + 1,
               !.scheduled = @ \cup {self.frames + 1}]

startAnimationLoop(self) == RequestAnimationFrame(self)

stopAnimationLoop(self) ==
  IF self.animationFrameId # 0
  THEN [self EXCEPT !.scheduled = @ \ {self.animationFrameId},
                    !.animationFrameId = 0]
  ELSE self

\* An updateAnimationLoop that starts the loop and never stops it.
updateAnimationLoopStartOnly(self) ==
  IF (\E name \in self.activeModes : needsAnimation(name))
     /\ self.animationFrameId = 0
  THEN startAnimationLoop(self)
  ELSE self

updateAnimationLoop(self) ==
  LET needsAnim == \E name \in self.activeModes : needsAnimation(name)
  IN  IF needsAnim /\ self.animationFrameId = 0 THEN startAnimationLoop(self)
      ELSE IF ~needsAnim /\ self.animationFrameId # 0 THEN stopAnimationLoop(self)
      ELSE self

\* enableMode(name); the mode's activate and render return.
enableMode(self, name) ==
  IF name \notin self.modes \/ name \in self.activeModes THEN self
  ELSE updateAnimationLoop([self EXCEPT !.activeModes = @ \cup {name}])

\* disableMode(name); the mode's deactivate returns.
disableMode(self, name) ==
  IF name \notin self.activeModes THEN self
  ELSE updateAnimationLoop([self EXCEPT !.activeModes = @ \ {name}])

toggleMode(self, name, enabled) ==
  IF enabled THEN enableMode(self, name) ELSE disableMode(self, name)

\* tick(timestamp), the frame callback with the given id: the modes'
\* update, then this.animationFrameId = requestAnimationFrame(tick).
tick(self, id) ==
  RequestAnimationFrame([self EXCEPT !.scheduled = @ \ {id}])

(***************************************************************************)
(* State machine                                                           *)
(***************************************************************************)
NoCall == [fn |-> "none"]

NoProbe == [fn |-> "none"]

NoMemo == [none |-> TRUE]

NoTrace == [none |-> TRUE]

Outcome(r) ==
  IF r.threw THEN [threw |-> TRUE, thrown |-> r.thrown]
  ELSE [threw |-> FALSE, value |-> r.value]

\* History of the probed call: its first outcome, and whether another call
\* ran since ("between") and the probed call then ran again ("repeated").
Remember(fn, args, outcome) ==
  memo' = IF probe = [fn |-> fn, args |-> args]
          THEN IF memo = NoMemo THEN [first |-> outcome, stage |-> "first"]
               ELSE IF memo.stage = "between" THEN [memo EXCEPT !.stage = "repeated"]
               ELSE memo
          ELSE IF memo # NoMemo /\ memo.stage = "first"
               THEN [memo EXCEPT !.stage = "between"]
               ELSE memo

\* An API call whose result is r: [threw, value | thrown, levels].
Called(fn, args, r) ==
  /\ ret' = [fn |-> fn, args |-> args, outcome |-> Outcome(r)]
  /\ catalog' = r.levels
  /\ Remember(fn, args, Outcome(r))

CallCalculateMotionVectors(lat, lon, date) ==
  /\ Called("calculateMotionVectors", <<lat, lon, date>>,
            calculateMotionVectors(catalog, lat, lon, date))
  /\ UNCHANGED <<probe, lmMaxLevel, lmUIVisible, vectorSum, hostTimezone,
                 lmListeners, lmTrace, deviceOrientation, textureWait,
                 modeManager>>

CallCalculateVectorSum(lat, lon, date, maxLevel) ==
  /\ Called("calculateVectorSum", <<lat, lon, date, maxLevel>>,
            calculateVectorSum(catalog, lat, lon, date, maxLevel))
  /\ UNCHANGED <<probe, lmMaxLevel, lmUIVisible, vectorSum, hostTimezone,
                 lmListeners, lmTrace, deviceOrientation, textureWait,
                 modeManager>>

CallCalculateAll(lat, lon, date, maxLevel) ==
  /\ Called("calculateAll", <<lat, lon, date, maxLevel>>,
            calculateAll(catalog, lat, lon, date, maxLevel))
  /\ UNCHANGED <<probe, lmMaxLevel, lmUIVisible, vectorSum, hostTimezone,
                 lmListeners, lmTrace, deviceOrientation, textureWait,
                 modeManager>>

\* calculateCelestialPositions does not read the catalog.
WithLevels(r, levels) ==
  IF r.threw THEN [threw |-> TRUE, thrown |-> r.thrown, levels |-> levels]
  ELSE [threw |-> FALSE, value |-> r.value, levels |-> levels]

CallCalculateCelestialPositions(lat, lon, date) ==
  /\ Called("calculateCelestialPositions", <<lat, lon, date>>,
            WithLevels(calculateCelestialPositions(lat, lon, date), catalog))
  /\ UNCHANGED <<probe, lmMaxLevel, lmUIVisible, vectorSum, hostTimezone,
                 lmListeners, lmTrace, deviceOrientation, textureWait,
                 modeManager>>

\* A query: it returns a value and assigns nothing.
Query(fn, args, value) ==
  ret' = [fn |-> fn, args |-> args, outcome |-> Return(value)]

QueryGetLevelsUpTo(maxLevel) ==
  /\ Query("getLevelsUpTo", <<maxLevel>>, getLevelsUpTo(catalog, maxLevel))
  /\ UNCHANGED <<catalog, probe, memo, lmMaxLevel, lmUIVisible, vectorSum, hostTimezone,
                 lmListeners, lmTrace, deviceOrientation, textureWait,
                 modeManager>>

QueryGetImplementedLevels ==
  /\ Query("getImplementedLevels", <<>>, getImplementedLevels(catalog))
  /\ UNCHANGED <<catalog, probe, memo, lmMaxLevel, lmUIVisible, vectorSum, hostTimezone,
                 lmListeners, lmTrace, deviceOrientation, textureWait,
                 modeManager>>

QueryGetUnimplementedLevels ==
  /\ Query("getUnimplementedLevels", <<>>, getUnimplementedLevels(catalog))
  /\ UNCHANGED <<catalog, probe, memo, lmMaxLevel, lmUIVisible, vectorSum, hostTimezone,
                 lmListeners, lmTrace, deviceOrientation, textureWait,
                 modeManager>>

QueryGetCosmicLevelByNumber(levelNumber) ==
  /\ Query("getCosmicLevelByNumber", <<levelNumber>>,
           getCosmicLevelByNumber(catalog, levelNumber))
  /\ UNCHANGED <<catalog, probe, memo, lmMaxLevel, lmUIVisible, vectorSum, hostTimezone,
                 lmListeners, lmTrace, deviceOrientation, textureWait,
                 modeManager>>

\* setMaxLevel(level), with the calls of the listeners it makes.
SetMaxLevelStep(level) ==
  /\ lmMaxLevel' = setMaxLevel(lmMaxLevel, level)
  /\ lmTrace' = [requested |-> level,
                 calls |-> setMaxLevelNotification(lmListeners, lmMaxLevel, level).calls,
                 threw |-> setMaxLevelNotification(lmListeners, lmMaxLevel, level).threw]

LMSetMaxLevel(level) ==
  /\ SetMaxLevelStep(level)
  /\ UNCHANGED <<catalog, ret, probe, memo, lmUIVisible, vectorSum, hostTimezone,
                 lmListeners, deviceOrientation, textureWait, modeManager>>

LMToggleUI ==
  /\ lmUIVisible' = toggleUI(lmUIVisible)
  /\ UNCHANGED <<catalog, ret, probe, memo, lmMaxLevel, vectorSum, hostTimezone,
                 lmListeners, lmTrace, deviceOrientation, textureWait,
                 modeManager>>

LMShowUI ==
  /\ lmUIVisible' = showUI(lmUIVisible)
  /\ UNCHANGED <<catalog, ret, probe, memo, lmMaxLevel, vectorSum, hostTimezone,
                 lmListeners, lmTrace, deviceOrientation, textureWait,
                 modeManager>>

LMHideUI ==
  /\ lmUIVisible' = hideUI(lmUIVisible)
  /\ UNCHANGED <<catalog, ret, probe, memo, lmMaxLevel, vectorSum, hostTimezone,
                 lmListeners, lmTrace, deviceOrientation, textureWait,
                 modeManager>>

\* reset(): setMaxLevel(6); hideUI()
LMReset ==
  /\ SetMaxLevelStep(6)
  /\ lmUIVisible' = hideUI(lmUIVisible)
  /\ UNCHANGED <<catalog, ret, probe, memo, vectorSum, hostTimezone, lmListeners,
                 deviceOrientation, textureWait, modeManager>>

\* addLevelChangeListener(callback): this.listeners.add(callback)
LMAddLevelChangeListener(callback) ==
  /\ lmListeners' = IF \E i \in 1..Len(lmListeners) : lmListeners[i] = callback
                    THEN lmListeners ELSE Append(lmListeners, callback)
  /\ UNCHANGED <<catalog, ret, probe, memo, lmMaxLevel, lmUIVisible, vectorSum,
                 hostTimezone, lmTrace, deviceOrientation, textureWait,
                 modeManager>>

\* removeLevelChangeListener(callback): this.listeners.delete(callback)
LMRemoveLevelChangeListener(callback) ==
  /\ lmListeners' = LET Other(c) == c # callback IN SelectSeq(lmListeners, Other)
  /\ UNCHANGED <<catalog, ret, probe, memo, lmMaxLevel, lmUIVisible, vectorSum,
                 hostTimezone, lmTrace, deviceOrientation, textureWait,
                 modeManager>>

LMGetActiveLevels ==
  /\ Query("LevelManager.getActiveLevels", <<lmMaxLevel>>,
           getActiveLevels(catalog, lmMaxLevel))
  /\ UNCHANGED <<catalog, probe, memo, lmMaxLevel, lmUIVisible, vectorSum, hostTimezone,
                 lmListeners, lmTrace, deviceOrientation, textureWait,
                 modeManager>>

LMGetActiveImplementedLevels ==
  /\ Query("LevelManager.getActiveImplementedLevels", <<lmMaxLevel>>,
           getActiveImplementedLevels(catalog, lmMaxLevel))
  /\ UNCHANGED <<catalog, probe, memo, lmMaxLevel, lmUIVisible, vectorSum, hostTimezone,
                 lmListeners, lmTrace, deviceOrientation, textureWait,
                 modeManager>>

LMIsLevelActive(levelNumber) ==
  /\ Query("LevelManager.isLevelActive", <<levelNumber, lmMaxLevel>>,
           isLevelActive(levelNumber, lmMaxLevel))
  /\ UNCHANGED <<catalog, probe, memo, lmMaxLevel, lmUIVisible, vectorSum, hostTimezone,
                 lmListeners, lmTrace, deviceOrientation, textureWait,
                 modeManager>>

\* A VectorSum driven directly by its caller.
VSAddVector(magnitude, azimuth, altitude) ==
  /\ vectorSum' = addVector(vectorSum, "v", magnitude, azimuth, altitude)
  /\ UNCHANGED <<catalog, ret, probe, memo, lmMaxLevel, lmUIVisible, hostTimezone,
                 lmListeners, lmTrace, deviceOrientation, textureWait,
                 modeManager>>

VSClear ==
  /\ vectorSum' = clear(vectorSum)
  /\ UNCHANGED <<catalog, ret, probe, memo, lmMaxLevel, lmUIVisible, hostTimezone,
                 lmListeners, lmTrace, deviceOrientation, textureWait,
                 modeManager>>

(***************************************************************************)
(* Spec: the shipped catalog under the calculation API and the registry    *)
(* queries                                                                 *)
(***************************************************************************)
Init ==
  /\ catalog = COSMIC_LEVELS
  /\ ret = NoCall
  /\ probe = NoProbe
  /\ memo = NoMemo
  /\ lmMaxLevel = 8
  /\ lmUIVisible = FALSE
  /\ vectorSum = NewVectorSum
  /\ hostTimezone = 0
  /\ lmListeners = <<>>
  /\ lmTrace = NoTrace
  /\ deviceOrientation = NewDeviceOrientation
  /\ textureWait = NoTextureWait
  /\ modeManager = NewModeManager

Next ==
  \/ \E o \in Observers, d \in Dates : CallCalculateMotionVectors(o[1], o[2], d)
  \/ \E o \in Observers, d \in Dates, m \in MaxLevels :
       CallCalculateVectorSum(o[1], o[2], d, m)
  \/ \E o \in Observers, d \in Dates, m \in MaxLevels :
       CallCalculateAll(o[1], o[2], d, m)
  \/ \E o \in Observers, d \in Dates : CallCalculateCelestialPositions(o[1], o[2], d)
  \/ \E m \in MaxLevels : QueryGetLevelsUpTo(m)
  \/ QueryGetImplementedLevels
  \/ QueryGetUnimplementedLevels
  \/ \E n \in MaxLevels : QueryGetCosmicLevelByNumber(n)

Spec == Init /\ [][Next]_vars

(***************************************************************************)
(* SpecFrame: every operation that can reach the catalog, LevelManager     *)
(* included, on a few inputs                                               *)
(***************************************************************************)
\* A few of the observers and of the levels.
FewObservers == {<<0, 0>>, <<90, 0>>}

FewLevels == {1, 8}

NextFrame ==
  \/ \E o \in FewObservers : CallCalculateMotionVectors(o[1], o[2], 0)
  \/ \E o \in FewObservers, m \in FewLevels : CallCalculateVectorSum(o[1], o[2], 0, m)
  \/ \E o \in FewObservers, m \in FewLevels : CallCalculateAll(o[1], o[2], 0, m)
  \/ \E o \in FewObservers : CallCalculateCelestialPositions(o[1], o[2], 0)
  \/ \E m \in FewLevels : QueryGetLevelsUpTo(m)
  \/ QueryGetImplementedLevels
  \/ QueryGetUnimplementedLevels
  \/ \E n \in FewLevels : QueryGetCosmicLevelByNumber(n)
  \/ \E l \in MaxLevels : LMSetMaxLevel(l)
  \/ LMToggleUI
  \/ LMShowUI
  \/ LMHideUI
  \/ LMReset
  \/ LMGetActiveLevels
  \/ LMGetActiveImplementedLevels
  \/ \E n \in FewLevels : LMIsLevelActive(n)

SpecFrame == Init /\ [][NextFrame]_vars

(***************************************************************************)
(* SpecVS: one VectorSum under addVector and clear                         *)
(***************************************************************************)
MaxVectors == 2

MaxMagnitude == 1

Magnitudes == (0 - MaxMagnitude)..MaxMagnitude

Azimuths == 0..3

Altitudes == {0, 1}

NextVS ==
  \/ \E g \in Magnitudes, az \in Azimuths, alt \in Altitudes :
       /\ Len(vectorSum.vectors) < MaxVectors
       /\ VSAddVector(g, az, alt)
  \/ VSClear

SpecVS == Init /\ [][NextVS]_vars

(***************************************************************************)
(* SpecRepeat: the same call made again after other calls                  *)
(***************************************************************************)
ProbeCalls ==
  {[fn |-> f, args |-> <<o[1], o[2], 0, m>>] :
     f \in {"calculateVectorSum", "calculateAll"},
     o \in FewObservers, m \in FewLevels}

InitRepeat ==
  /\ catalog = COSMIC_LEVELS
  /\ ret = NoCall
  /\ probe \in ProbeCalls
  /\ memo = NoMemo
  /\ lmMaxLevel = 8
  /\ lmUIVisible = FALSE
  /\ vectorSum = NewVectorSum
  /\ hostTimezone = 0
  /\ lmListeners = <<>>
  /\ lmTrace = NoTrace
  /\ deviceOrientation = NewDeviceOrientation
  /\ textureWait = NoTextureWait
  /\ modeManager = NewModeManager

NextRepeat ==
  \/ \E o \in FewObservers : CallCalculateMotionVectors(o[1], o[2], 0)
  \/ \E o \in FewObservers, m \in FewLevels :
       CallCalculateVectorSum(o[1], o[2], 0, m)
  \/ \E o \in FewObservers, m \in FewLevels :
       CallCalculateAll(o[1], o[2], 0, m)

SpecRepeat == InitRepeat /\ [][NextRepeat]_vars

(***************************************************************************)
(* SpecCatalog: a catalog with one level changed, under the API and the    *)
(* queries that filter on implemented                                      *)
(***************************************************************************)
InitCatalog ==
  /\ catalog \in CatalogVariants
  /\ ret = NoCall
  /\ probe = NoProbe
  /\ memo = NoMemo
  /\ lmMaxLevel = 8
  /\ lmUIVisible = FALSE
  /\ vectorSum = NewVectorSum
  /\ hostTimezone = 0
  /\ lmListeners = <<>>
  /\ lmTrace = NoTrace
  /\ deviceOrientation = NewDeviceOrientation
  /\ textureWait = NoTextureWait
  /\ modeManager = NewModeManager

NextCatalog ==
  \/ CallCalculateMotionVectors(0, 0, 0)
  \/ \E m \in FewLevels : CallCalculateVectorSum(0, 0, 0, m)
  \/ \E m \in FewLevels : CallCalculateAll(0, 0, 0, m)
  \/ QueryGetImplementedLevels
  \/ QueryGetUnimplementedLevels
  \/ \E l \in FewLevels : LMSetMaxLevel(l)
  \/ LMGetActiveImplementedLevels

SpecCatalog == InitCatalog /\ [][NextCatalog]_vars

(***************************************************************************)
(* Coordinates: sidereal time and hour angle in floating point             *)
(*                                                                         *)
(* localSiderealTime and hourAngle compute in IEEE doubles, and their      *)
(* results are compared with the bounds 0 and 360, so here every           *)
(* operation rounds: a number is an integer count of quanta (Quanta per    *)
(* degree or per day), kept to SignificandBits significant binary digits   *)
(* (a double keeps 53), round to nearest, ties to even.  The widths are    *)
(* tied so that numbers in [128, 256) are one quantum apart and numbers    *)
(* in [256, 512) two quanta apart, as doubles there are 2^-45 and 2^-44    *)
(* apart.                                                                  *)
(***************************************************************************)
\* The number of significant binary digits the modelled doubles keep.
SignificandBits == 9

Quanta == 2 ^ (SignificandBits - 8)

Abs(x) == IF x < 0 THEN 0 - x ELSE x

RECURSIVE BitLength(_)
BitLength(n) == IF n = 0 THEN 0 ELSE 1 + BitLength(n \div 2)

\* The double nearest to n / s: with u the distance between neighbouring
\* doubles of that magnitude, the nearest multiple of u, a tie going to the
\* even multiple.
Fl(n, s) ==
  LET bits == BitLength(Abs(n) \div s)
      u == IF bits <= SignificandBits THEN 1 ELSE 2 ^ (bits - SignificandBits)
      q == n \div (s * u)
      r == n - q * (s * u)
  IN  IF 2 * r < s * u THEN q * u
      ELSE IF 2 * r > s * u THEN (q + 1) * u
      ELSE IF q % 2 = 0 THEN q * u ELSE (q + 1) * u

\* a + b, a * b and a % b of doubles (a - b is a + (-b)); % is exact and
\* takes the sign of a.
FAdd(a, b) == IF a = NaN \/ b = NaN THEN NaN ELSE Fl(a + b, 1)

FMul(a, b) == IF a = NaN \/ b = NaN THEN NaN ELSE Fl(a * b, Quanta)

JsRem(a, b) ==
  IF a = NaN \/ b = NaN \/ b = 0 THEN NaN
  ELSE IF a < 0 THEN 0 - ((0 - a) % Abs(b)) ELSE a % Abs(b)

\* const lst = 280.46061837 + 360.98564736629 * daysSinceJ2000 + lonDeg,
\* each literal being the double nearest to it.
SiderealAngle(daysSinceJ2000, lonDeg) ==
  FAdd(FAdd(Fl(2804606 * Quanta, 10000),
            FMul(Fl(3609856 * Quanta, 10000), daysSinceJ2000)),
       lonDeg)

\* A localSiderealTime that wraps with a single modulo: lst % 360.
localSiderealTimeSingleModulo(daysSinceJ2000, lonDeg) ==
  JsRem(SiderealAngle(daysSinceJ2000, lonDeg), 360 * Quanta)

\* Coordinates.localSiderealTime: ((lst % 360) + 360) % 360
localSiderealTime(daysSinceJ2000, lonDeg) ==
  JsRem(FAdd(JsRem(SiderealAngle(daysSinceJ2000, lonDeg), 360 * Quanta),
             360 * Quanta),
        360 * Quanta)

\* Coordinates.hourAngle: let ha = lstDeg - raDeg; if (ha < 0) ha += 360.
\* A NaN is not below 0.
hourAngle(lstDeg, raDeg) ==
  LET ha == FAdd(lstDeg, JsNeg(raDeg))
  IN  IF ha # NaN /\ ha < 0 THEN FAdd(ha, 360 * Quanta) ELSE ha

(***************************************************************************)
(* Coordinates: epoch and azimuth                                          *)
(***************************************************************************)
\* Coordinates.daysSinceJ2000(date) for a Date argument.  j2000 is
\* new Date(2000, 0, 1, 12), noon of 1 January 2000 in the host's local
\* time; diff / (24 * 60 * 60 * 1000) is kept exactly, as whole days and
\* 24ths of a day.  The time value of an Invalid Date is NaN.
daysSinceJ2000(date, timezone) ==
  LET j2000 == 0 - timezone
      diff == date - j2000
  IN  IF date = InvalidDate THEN NaNTerm
      ELSE [days |-> diff \div 24, hours24 |-> diff % 24]

\* Math.acos(num / den) on the quarter-turn grid: x / 0 is an infinity or
\* NaN, and Math.acos is NaN outside [-1, 1].
MathAcosRatio(num, den) ==
  IF num = NaN \/ den = NaN \/ den = 0 THEN NaN
  ELSE IF Abs(num) > Abs(den) THEN NaN
  ELSE IF num = 0 THEN 1
  ELSE IF num = den THEN 0 ELSE 2

\* Coordinates.calculateAzimuth, angles in quarter turns:
\* Math.sin(haRad) < 0 ? az : Coordinates.toRadians(360) - az
calculateAzimuth(obsLatRad, starDecRad, starAltRad, haRad) ==
  LET az == MathAcosRatio(JsAdd(MathSin(starDecRad),
                                JsNeg(JsMul(MathSin(obsLatRad), MathSin(starAltRad)))),
                          JsMul(MathCos(obsLatRad), MathCos(starAltRad)))
  IN  IF MathSin(haRad) # NaN /\ MathSin(haRad) < 0 THEN az
      ELSE JsAdd(toRadians(360), JsNeg(az))

\* EarthOrbit.getDirection, the hour angle it hands to
\* equatorialToHorizontal, angles in quarter turns:
\* let ha = lstRad - ra; ha = ((ha + Math.PI) % (2 * Math.PI)) - Math.PI
EarthOrbitHourAngle(lstRad, ra) ==
  JsAdd(JsRem(JsAdd(JsAdd(lstRad, JsNeg(ra)), 2), 4), 0 - 2)

(***************************************************************************)
(* SpecCoord: one call of a Coordinates function or of                     *)
(* EarthRotation.getVelocity, on arguments drawn at the start, on a host   *)
(* in one of three time zones                                              *)
(***************************************************************************)
\* Doubles in [0, 360): the multiples of 10 degrees and, below 256, the
\* double just below each of them.
AnglesBelow360 ==
  {q \in 0..(360 * Quanta - 1) :
     /\ Fl(q, 1) = q
     /\ \/ q % (10 * Quanta) = 0
        \/ (q + 1) % (10 * Quanta) = 0}

\* Latitudes from pole to pole and a few longitudes, in degrees.
Latitudes == {15 * k : k \in (0 - 6)..6}

RotationLongitudes == {0 - 120, 0, 90}

\* hourAngle on pairs of angles; localSiderealTime on day counts before and
\* after J2000 (in half days) and on western and eastern longitudes;
\* daysSinceJ2000 on 2000-01-01T12:00Z, the day before and after,
\* 2001-01-01T12:00Z, 2025-01-01T18:00Z and an Invalid Date;
\* calculateAzimuth for an observer on the equator and a star on the
\* horizon (where the grid's cosines are those of the doubles), on
\* declinations and hour angles in quarter turns; the hour angle of
\* EarthOrbit.getDirection on sidereal times and right ascensions in
\* [0, 2 pi), in quarter turns.
CoordinateCalls ==
  {[fn |-> "Coordinates.hourAngle", args |-> <<l, r>>] :
     l \in AnglesBelow360, r \in AnglesBelow360}
  \cup {[fn |-> "Coordinates.localSiderealTime",
         args |-> <<Fl(h * Quanta, 2), Fl(l * Quanta, 1)>>] :
          h \in {0 - 2001, 0 - 732, 0 - 3, 0 - 2, 0 - 1, 0, 1, 2, 3, 732, 18262},
          l \in {0 - 180, 0 - 120, 0 - 90, 0 - 1, 0, 1, 90, 180}}
  \cup {[fn |-> "Coordinates.daysSinceJ2000", args |-> <<t>>] :
          t \in {0 - 24, 0, 24, 8784, 219174, InvalidDate}}
  \cup {[fn |-> "Coordinates.calculateAzimuth", args |-> <<0, d, 0, h>>] :
          d \in {0 - 1, 0, 1}, h \in (0 - 1)..3}
  \cup {[fn |-> "EarthRotation.getVelocity", args |-> <<a, l>>] :
          a \in Latitudes, l \in RotationLongitudes}
  \cup {[fn |-> "EarthOrbit.getDirection: ha", args |-> <<l, r>>] :
          l \in 0..3, r \in 0..3}

\* Each action makes the drawn call, once.
ApplyHourAngle ==
  /\ probe.fn = "Coordinates.hourAngle" /\ ret = NoCall
  /\ Query(probe.fn, probe.args, hourAngle(probe.args[1], probe.args[2]))
  /\ UNCHANGED <<catalog, probe, memo, lmMaxLevel, lmUIVisible, vectorSum, hostTimezone,
                 lmListeners, lmTrace, deviceOrientation, textureWait,
                 modeManager>>

ApplyLocalSiderealTime ==
  /\ probe.fn = "Coordinates.localSiderealTime" /\ ret = NoCall
  /\ Query(probe.fn, probe.args, localSiderealTime(probe.args[1], probe.args[2]))
  /\ UNCHANGED <<catalog, probe, memo, lmMaxLevel, lmUIVisible, vectorSum, hostTimezone,
                 lmListeners, lmTrace, deviceOrientation, textureWait,
                 modeManager>>

ApplyDaysSinceJ2000 ==
  /\ probe.fn = "Coordinates.daysSinceJ2000" /\ ret = NoCall
  /\ Query(probe.fn, probe.args, daysSinceJ2000(probe.args[1], hostTimezone))
  /\ UNCHANGED <<catalog, probe, memo, lmMaxLevel, lmUIVisible, vectorSum, hostTimezone,
                 lmListeners, lmTrace, deviceOrientation, textureWait,
                 modeManager>>

ApplyCalculateAzimuth ==
  /\ probe.fn = "Coordinates.calculateAzimuth" /\ ret = NoCall
  /\ Query(probe.fn, probe.args,
           calculateAzimuth(probe.args[1], probe.args[2], probe.args[3], probe.args[4]))
  /\ UNCHANGED <<catalog, probe, memo, lmMaxLevel, lmUIVisible, vectorSum, hostTimezone,
                 lmListeners, lmTrace, deviceOrientation, textureWait,
                 modeManager>>

ApplyGetVelocity ==
  /\ probe.fn = "EarthRotation.getVelocity" /\ ret = NoCall
  /\ Query(probe.fn, probe.args, EarthRotationGetVelocity(probe.args[1], probe.args[2]))
  /\ UNCHANGED <<catalog, probe, memo, lmMaxLevel, lmUIVisible, vectorSum, hostTimezone,
                 lmListeners, lmTrace, deviceOrientation, textureWait,
                 modeManager>>

ApplyEarthOrbitHourAngle ==
  /\ probe.fn = "EarthOrbit.getDirection: ha" /\ ret = NoCall
  /\ Query(probe.fn, probe.args, EarthOrbitHourAngle(probe.args[1], probe.args[2]))
  /\ UNCHANGED <<catalog, probe, memo, lmMaxLevel, lmUIVisible, vectorSum, hostTimezone,
                 lmListeners, lmTrace, deviceOrientation, textureWait,
                 modeManager>>

\* Hours east of UTC: Los Angeles, UTC, Auckland.
InitCoord ==
  /\ catalog = COSMIC_LEVELS
  /\ ret = NoCall
  /\ probe \in CoordinateCalls
  /\ memo = NoMemo
  /\ lmMaxLevel = 8
  /\ lmUIVisible = FALSE
  /\ vectorSum = NewVectorSum
  /\ hostTimezone \in {0 - 8, 0, 12}
  /\ lmListeners = <<>>
  /\ lmTrace = NoTrace
  /\ deviceOrientation = NewDeviceOrientation
  /\ textureWait = NoTextureWait
  /\ modeManager = NewModeManager

NextCoord ==
  \/ ApplyHourAngle
  \/ ApplyLocalSiderealTime
  \/ ApplyDaysSinceJ2000
  \/ ApplyCalculateAzimuth
  \/ ApplyGetVelocity
  \/ ApplyEarthOrbitHourAngle

SpecCoord == InitCoord /\ [][NextCoord]_vars

(***************************************************************************)
(* SpecCopy: a VectorSum under addVector and getVectors, and the caller's  *)
(* writes through the array getVectors returned                            *)
(*                                                                         *)
(* [...this.vectors] builds a new array whose elements are the objects     *)
(* this.vectors holds.  An element of the returned array is therefore a    *)
(* reference, modelled by the index of the object in this.vectors.         *)
(***************************************************************************)
\* getVectors(): the references the returned array holds, in array order.
ReferencesOf(self) == [i \in 1..Len(self.vectors) |-> i]

\* The objects reached through an array of references.
Deref(self, refs) == [k \in 1..Len(refs) |-> self.vectors[refs[k]]]

VSGetVectors ==
  /\ ret' = [fn |-> "getVectors", args |-> <<>>,
             outcome |-> Return(ReferencesOf(vectorSum))]
  /\ UNCHANGED <<catalog, probe, memo, lmMaxLevel, lmUIVisible, vectorSum, hostTimezone,
                 lmListeners, lmTrace, deviceOrientation, textureWait,
                 modeManager>>

\* returned.pop() on an array the caller got from getVectors: the caller's
\* array loses its last element.
CallerPop ==
  /\ ret # NoCall
  /\ Len(ret.outcome.value) > 0
  /\ ret' = [fn |-> "returned.pop", args |-> <<>>,
             outcome |-> Return(SubSeq(ret.outcome.value, 1, Len(ret.outcome.value) - 1))]
  /\ UNCHANGED <<catalog, probe, memo, lmMaxLevel, lmUIVisible, vectorSum, hostTimezone,
                 lmListeners, lmTrace, deviceOrientation, textureWait,
                 modeManager>>

\* returned[k].magnitude = m: a write to the object that returned[k] and
\* this.vectors both refer to.
CallerSetMagnitude(k, m) ==
  /\ ret # NoCall
  /\ k \in 1..Len(ret.outcome.value)
  /\ ret' = [fn |-> "returned[k].magnitude = m", args |-> <<k, m>>,
             outcome |-> Return(ret.outcome.value)]
  /\ vectorSum' = [vectorSum EXCEPT !.vectors[ret.outcome.value[k]].magnitude = m]
  /\ UNCHANGED <<catalog, probe, memo, lmMaxLevel, lmUIVisible, hostTimezone,
                 lmListeners, lmTrace, deviceOrientation, textureWait,
                 modeManager>>

NextCopy ==
  \/ \E az \in {0, 1} :
       /\ Len(vectorSum.vectors) < MaxVectors
       /\ VSAddVector(1, az, 0)
  \/ VSGetVectors
  \/ CallerPop
  \/ \E k \in 1..MaxVectors, m \in {0, 2} : CallerSetMagnitude(k, m)

SpecCopy == Init /\ [][NextCopy]_vars

(***************************************************************************)
(* SpecLevels: a LevelManager and its level-change listeners: two          *)
(* callbacks that return and one that throws, levels asked below, inside   *)
(* and above 1..8                                                          *)
(***************************************************************************)
NextLevels ==
  \/ \E l \in {0, 1, 4, 9} : LMSetMaxLevel(l)
  \/ LMReset
  \/ LMToggleUI
  \/ LMShowUI
  \/ LMHideUI
  \/ \E c \in {"a", "b", "t"} : LMAddLevelChangeListener(c)
  \/ \E c \in {"a", "b", "t"} : LMRemoveLevelChangeListener(c)

SpecLevels == Init /\ [][NextLevels]_vars

(***************************************************************************)
(* SpecCalibration: a DeviceOrientation whose calibration is started once, *)
(* as script.js does, under deviceorientation events with and without a    *)
(* usable heading                                                          *)
(***************************************************************************)
\* The number of deviceorientation events the window dispatches.
MaxEvents == 8

\* Events with no webkitCompassHeading, with NaN, 0 and two compass headings.
OrientationEvents ==
  {[type |-> "deviceorientation"]}
  \cup {[type |-> "deviceorientation", webkitCompassHeading |-> h] :
          h \in {NaN, 0, 90, 270}}

DOStartCalibration(onReady) ==
  /\ deviceOrientation.onReadyCallback = "null"
  /\ ~deviceOrientation.listening
  /\ deviceOrientation' = startCalibration(deviceOrientation, onReady)
  /\ UNCHANGED <<catalog, ret, probe, memo, lmMaxLevel, lmUIVisible, vectorSum,
                 hostTimezone, lmListeners, lmTrace, textureWait, modeManager>>

\* The window dispatches a deviceorientation event: its listeners run.
DispatchOrientation(evt) ==
  /\ deviceOrientation.events < MaxEvents
  /\ deviceOrientation' =
       [(IF deviceOrientation.listening
         THEN handleOrientation(deviceOrientation, evt)
         ELSE deviceOrientation) EXCEPT !.events = @ + 1]
  /\ UNCHANGED <<catalog, ret, probe, memo, lmMaxLevel, lmUIVisible, vectorSum,
                 hostTimezone, lmListeners, lmTrace, textureWait, modeManager>>

NextCalibration ==
  \/ DOStartCalibration("handleDeviceReady")
  \/ \E evt \in OrientationEvents : DispatchOrientation(evt)

SpecCalibration == Init /\ [][NextCalibration]_vars

(***************************************************************************)
(* SpecTexture: one call of waitForTextureUpdate, its timers firing in any *)
(* order while the skybox texture loads; SpecTextureFair: every pending    *)
(* timer other than the polling one fires in the end                       *)
(***************************************************************************)
\* The number of checks made before the fallback timer is the only one
\* left to fire (the timeout is finite and the checks are 100 ms apart).
MaxChecks == 4

CRWaitForTextureUpdate(skybox) ==
  /\ ~textureWait.called
  /\ textureWait' = waitForTextureUpdate(textureWait, skybox)
  /\ UNCHANGED <<catalog, ret, probe, memo, lmMaxLevel, lmUIVisible, vectorSum,
                 hostTimezone, lmListeners, lmTrace, deviceOrientation,
                 modeManager>>

\* The skybox gets another texture.
TextureChanges(texture) ==
  /\ texture # textureWait.texture
  /\ textureWait' = [textureWait EXCEPT !.texture = texture]
  /\ UNCHANGED <<catalog, ret, probe, memo, lmMaxLevel, lmUIVisible, vectorSum,
                 hostTimezone, lmListeners, lmTrace, deviceOrientation,
                 modeManager>>

CheckTextureFires ==
  /\ textureWait.checkPending
  /\ textureWait.checkCount < MaxChecks
  /\ textureWait' = checkTexture(textureWait)
  /\ UNCHANGED <<catalog, ret, probe, memo, lmMaxLevel, lmUIVisible, vectorSum,
                 hostTimezone, lmListeners, lmTrace, deviceOrientation,
                 modeManager>>

HiResTimeoutFires ==
  /\ textureWait.hiResPending
  /\ textureWait' = hiResTimeout(textureWait)
  /\ UNCHANGED <<catalog, ret, probe, memo, lmMaxLevel, lmUIVisible, vectorSum,
                 hostTimezone, lmListeners, lmTrace, deviceOrientation,
                 modeManager>>

FallbackTimeoutFires ==
  /\ textureWait.fallbackPending
  /\ textureWait' = fallbackTimeout(textureWait)
  /\ UNCHANGED <<catalog, ret, probe, memo, lmMaxLevel, lmUIVisible, vectorSum,
                 hostTimezone, lmListeners, lmTrace, deviceOrientation,
                 modeManager>>

NextTexture ==
  \/ \E skybox \in BOOLEAN : CRWaitForTextureUpdate(skybox)
  \/ \E t \in {"none", "lowres", "hires", "nosrc"} : TextureChanges(t)
  \/ CheckTextureFires
  \/ HiResTimeoutFires
  \/ FallbackTimeoutFires

SpecTexture == Init /\ [][NextTexture]_vars

SpecTextureFair ==
  SpecTexture /\ WF_vars(HiResTimeoutFires) /\ WF_vars(FallbackTimeoutFires)

(***************************************************************************)
(* SpecModes: a VisualizationModeManager under registerMode, enableMode,   *)
(* disableMode, toggleMode and the browser's animation frames              *)
(***************************************************************************)
\* The number of animation frames requested.
MaxFrames == 5

\* Names the callers pass: the three registered by script.js and one that
\* is never registered.
ModeNames == {"markers", "distance", "particles", "heatmap"}

\* registerMode(name, mode): this.modes.set(name, mode)
VMRegisterMode(name) ==
  /\ modeManager' = [modeManager EXCEPT !.modes = @ \cup {name}]
  /\ UNCHANGED <<catalog, ret, probe, memo, lmMaxLevel, lmUIVisible, vectorSum,
                 hostTimezone, lmListeners, lmTrace, deviceOrientation,
                 textureWait>>

VMEnableMode(name) ==
  /\ modeManager.frames < MaxFrames
  /\ modeManager' = enableMode(modeManager, name)
  /\ UNCHANGED <<catalog, ret, probe, memo, lmMaxLevel, lmUIVisible, vectorSum,
                 hostTimezone, lmListeners, lmTrace, deviceOrientation,
                 textureWait>>

VMDisableMode(name) ==
  /\ modeManager' = disableMode(modeManager, name)
  /\ UNCHANGED <<catalog, ret, probe, memo, lmMaxLevel, lmUIVisible, vectorSum,
                 hostTimezone, lmListeners, lmTrace, deviceOrientation,
                 textureWait>>

VMToggleMode(name, enabled) ==
  /\ modeManager.frames < MaxFrames
  /\ modeManager' = toggleMode(modeManager, name, enabled)
  /\ UNCHANGED <<catalog, ret, probe, memo, lmMaxLevel, lmUIVisible, vectorSum,
                 hostTimezone, lmListeners, lmTrace, deviceOrientation,
                 textureWait>>

\* The browser runs a pending frame callback.
AnimationFrame(id) ==
  /\ modeManager.frames < MaxFrames
  /\ id \in modeManager.scheduled
  /\ modeManager' = tick(modeManager, id)
  /\ UNCHANGED <<catalog, ret, probe, memo, lmMaxLevel, lmUIVisible, vectorSum,
                 hostTimezone, lmListeners, lmTrace, deviceOrientation,
                 textureWait>>

NextModes ==
  \/ \E name \in ModeNames \ {"heatmap"} : VMRegisterMode(name)
  \/ \E name \in ModeNames : VMEnableMode(name)
  \/ \E name \in ModeNames : VMDisableMode(name)
  \/ \E name \in ModeNames, enabled \in BOOLEAN : VMToggleMode(name, enabled)
  \/ \E id \in 1..MaxFrames : AnimationFrame(id)

SpecModes == Init /\ [][NextModes]_vars

(***************************************************************************)
(* Properties of VectorSum (SpecVS)                                        *)
(***************************************************************************)
\* The componentwise sum of sphericalToCartesian over a sequence of held
\* vectors, from their spherical fields.
RECURSIVE HeldComponent(_, _)
HeldComponent(vs, c) ==
  IF vs = <<>> THEN 0
  ELSE sphericalToCartesian(Head(vs).magnitude, Head(vs).azimuth, Head(vs).altitude)[c]
       + HeldComponent(Tail(vs), c)

HeldSum(self) ==
  [x |-> HeldComponent(self.vectors, "x"),
   y |-> HeldComponent(self.vectors, "y"),
   z |-> HeldComponent(self.vectors, "z")]

ZeroVector == [x |-> 0, y |-> 0, z |-> 0]

\* C4: whenever the Cartesian sum held by the VectorSum has zero magnitude
\* (no vectors, or vectors that cancel exactly), getResultant() is null.
C4_ZeroSumResultantIsNull ==
  HeldSum(vectorSum) = ZeroVector => getResultant(vectorSum) = Null

\* C5: a non-null resultant belongs to a non-empty VectorSum, its cartesian is
\* the componentwise sum of sphericalToCartesian over exactly the vectors
\* held now, and its magnitude, azimuth and altitude are those of that sum.
C5_ResultantIsCurrentSum ==
  LET r == vectorSum.resultant
      s == HeldSum(vectorSum)
      m == [sqrtSumSq |-> <<s.x, s.y, s.z>>]
  IN  r # Null =>
        /\ Len(vectorSum.vectors) > 0
        /\ r.cartesian = s
        /\ r.magnitude = m
        /\ r.azimuth = [atan2 |-> <<s.x, s.y>>]
        /\ r.altitude = IF s = ZeroVector THEN NaNTerm ELSE [asin |-> <<s.z, m>>]
        /\ r.azimuthDegrees = [toDegrees |-> r.azimuth]

\* Two vectors held, one north and one east: the resultant is their sum.
C5_Witness ==
  /\ Len(vectorSum.vectors) = 2
  /\ vectorSum.vectors[1].azimuth = 0
  /\ vectorSum.vectors[2].azimuth = 1
  /\ vectorSum.resultant # Null
  /\ vectorSum.resultant.cartesian = [x |-> 1, y |-> 1, z |-> 0]

(***************************************************************************)
(* Properties of the calculation API on the shipped catalog (Spec)         *)
(***************************************************************************)
ApiFunctions ==
  {"calculateMotionVectors", "calculateVectorSum", "calculateAll",
   "calculateCelestialPositions"}

Returned(fn) == ret.fn = fn /\ ~ret.outcome.threw

\* The object calculateVectorSum returned, directly or inside calculateAll.
HasVectorSumResult ==
  Returned("calculateVectorSum") \/ Returned("calculateAll")

VectorSumResultOf(r) ==
  IF r.fn = "calculateAll" THEN r.outcome.value.vectorSum ELSE r.outcome.value

LevelsOf(vectors) == [i \in 1..Len(vectors) |-> vectors[i].level]

NamesOf(vectors) == [i \in 1..Len(vectors) |-> vectors[i].name]

\* The levels 1..n in order.
UpTo(n) == [i \in 1..n |-> i]

\* C1: the activeVectors of a call with maxLevel m are the catalog levels
\* L <= m that are implemented, error-free and not verification-only, in
\* catalog order: levels 1..min(m, 7), never level 8.
C1_ActiveVectorsAreEligibleLevels ==
  HasVectorSumResult =>
    LET v == VectorSumResultOf(ret)
        m == ret.args[4]
    IN  /\ LevelsOf(v.activeVectors) = UpTo(IF m < 0 THEN 0 ELSE IF m > 7 THEN 7 ELSE m)
        /\ \A i \in 1..Len(v.activeVectors) :
             /\ v.activeVectors[i].implemented
             /\ "error" \notin DOMAIN v.activeVectors[i]
             /\ ~v.activeVectors[i].isVerification
             /\ v.activeVectors[i] = v.motionVectors[v.activeVectors[i].level]
        /\ Len(v.vectorSum.vectors) = Len(v.activeVectors)

\* calculateVectorSum with maxLevel 8 returned 7 active vectors.
C1_Witness ==
  /\ Returned("calculateVectorSum")
  /\ ret.args[4] = 8
  /\ Len(ret.outcome.value.activeVectors) = 7
  /\ Len(ret.outcome.value.motionVectors) = 8

\* C7: with the shipped catalog calculateMotionVectors returns 8 entries, one
\* per level in the order 1..8, each implemented and with no error field.
C7_EightImplementedEntries ==
  ret.fn = "calculateMotionVectors" =>
    /\ ~ret.outcome.threw
    /\ LevelsOf(ret.outcome.value) = UpTo(8)
    /\ \A i \in 1..8 :
         /\ ret.outcome.value[i].implemented = TRUE
         /\ "error" \notin DOMAIN ret.outcome.value[i]
         /\ ret.outcome.value[i].name = COSMIC_LEVELS[i].name

C7_Witness ==
  /\ Returned("calculateMotionVectors")
  /\ ret.args = <<0, 0, 219174>>
  /\ Len(ret.outcome.value) = 8
  /\ ret.outcome.value[8].velocity = 369820

\* C10: an API call with a latitude outside [-90, 90] or with an Invalid
\* Date is rejected: it throws instead of returning a result.
C10_RejectsInvalidInput ==
  (/\ ret.fn \in ApiFunctions
   /\ \/ ret.args[1] < 0 - 90
      \/ ret.args[1] > 90
      \/ ret.args[3] = InvalidDate)
  => ret.outcome.threw

(***************************************************************************)
(* The catalog is never written (SpecFrame)                                *)
(***************************************************************************)
\* C8: after any sequence of registry queries, API calls (which construct
\* the motion models on the catalog entries) and LevelManager operations the
\* catalog has the 8 entries and the field values it was loaded with.
C8_CatalogNeverMutated == catalog = COSMIC_LEVELS

\* calculateAll returned after the LevelManager was reset and its UI shown.
C8_Witness ==
  /\ Returned("calculateAll")
  /\ lmMaxLevel = 6
  /\ lmUIVisible

(***************************************************************************)
(* No state is carried from call to call (SpecRepeat)                      *)
(***************************************************************************)
\* C9: the probed call, made again after other calls, has the outcome it had
\* the first time (motionVectors, activeVectors, resultant and the rest);
\* and the VectorSum a call returns holds exactly that call's active vectors.
C9_CallsCarryNoState ==
  /\ (memo # NoMemo /\ probe = [fn |-> ret.fn, args |-> ret.args])
       => ret.outcome = memo.first
  /\ HasVectorSumResult =>
       NamesOf(VectorSumResultOf(ret).vectorSum.vectors)
         = NamesOf(VectorSumResultOf(ret).activeVectors)

\* The probed call ran, other calls ran, and the probed call just ran again.
C9_Witness ==
  /\ memo # NoMemo
  /\ memo.stage = "repeated"
  /\ probe = [fn |-> ret.fn, args |-> ret.args]
  /\ Len(VectorSumResultOf(ret).activeVectors) = 7

(***************************************************************************)
(* Levels that throw and levels that are skipped (SpecCatalog)             *)
(***************************************************************************)
\* The catalog levels whose motion model throws when calculateMotionVectors
\* runs it.
ThrowingLevels(levels) ==
  {i \in 1..Len(levels) :
     /\ levels[i].implemented
     /\ "motionClass" \in DOMAIN levels[i]
     /\ \/ levels[i].motionClass = "FaultyMotion"
        \/ /\ levels[i].motionClass = "CosmicMotion"
           /\ "coordinates" \notin DOMAIN levels[i]}

\* The catalog levels with implemented = false or with no motion class.
SkippedLevels(levels) ==
  {i \in 1..Len(levels) :
     ~levels[i].implemented \/ "motionClass" \notin DOMAIN levels[i]}

UnimplementedLevels(levels) == {i \in 1..Len(levels) : ~levels[i].implemented}

Range(s) == {s[i] : i \in 1..Len(s)}

\* C2: with a level whose model throws, whatever it throws, the three calls
\* still return, and the sum holds exactly the other eligible levels.
C2_ThrowingLevelIsIsolated ==
  (/\ ThrowingLevels(catalog) # {}
   /\ ret.fn \in {"calculateMotionVectors", "calculateVectorSum", "calculateAll"})
  => /\ ~ret.outcome.threw
     /\ ret.fn # "calculateMotionVectors" =>
          LET v == VectorSumResultOf(ret) IN
          /\ Range(LevelsOf(v.activeVectors))
               = {i \in 1..7 : i <= ret.args[4]} \ ThrowingLevels(catalog)
          /\ NamesOf(v.vectorSum.vectors) = NamesOf(v.activeVectors)
          /\ v.resultant # Null => v.resultant.cartesian = HeldSum(v.vectorSum)

\* C3: where the call returns, a level whose model throws is recorded in
\* motionVectors with an error marker, counts as not implemented, and is not
\* among the activeVectors.
C3_ThrowingLevelIsRecorded ==
  /\ Returned("calculateMotionVectors") =>
       \A i \in ThrowingLevels(catalog) :
         /\ ret.outcome.value[i].level = i
         /\ Truthy(Get(ret.outcome.value[i], "error"))
         /\ "velocity" \notin DOMAIN ret.outcome.value[i]
  /\ Returned("calculateVectorSum") =>
       \A i \in ThrowingLevels(catalog) :
         i \notin Range(LevelsOf(ret.outcome.value.activeVectors))

\* What calculateMotionVectors, calculateVectorSum and calculateAll do with
\* the levels of the set skipped: no exception, an implemented:false entry
\* built without a model, and no active vector.
SkippedByCalculations(skipped) ==
  /\ (skipped # {} /\ ret.fn \in ApiFunctions) => ~ret.outcome.threw
  /\ Returned("calculateMotionVectors") =>
       \A i \in skipped :
         ret.outcome.value[i] =
           [level |-> i, name |-> catalog[i].name,
            implemented |-> FALSE, error |-> "Not implemented"]
  /\ HasVectorSumResult =>
       \A i \in skipped :
         i \notin Range(LevelsOf(VectorSumResultOf(ret).activeVectors))

\* What LevelManager.getActiveImplementedLevels does with the levels of the
\* set hidden: it returns none of them.
HiddenByLevelManager(hidden) ==
  Returned("LevelManager.getActiveImplementedLevels") =>
    \A i \in hidden : i \notin Range(LevelsOf(ret.outcome.value))

\* C6 as stated: every level with implemented = false or with no motion
\* class is skipped by the calculations and left out by the LevelManager.
C6_SkippedEverywhere ==
  /\ SkippedByCalculations(SkippedLevels(catalog))
  /\ HiddenByLevelManager(SkippedLevels(catalog))

\* C6 amended: every level with implemented = false or with no motion class
\* is skipped by the calculations; the LevelManager leaves out the levels
\* with implemented = false (and the levels above its maxLevel) only.
C6_SkippedByCalculationsHiddenIfUnimplemented ==
  /\ SkippedByCalculations(SkippedLevels(catalog))
  /\ HiddenByLevelManager(UnimplementedLevels(catalog))
  /\ Returned("LevelManager.getActiveImplementedLevels") =>
       Range(LevelsOf(ret.outcome.value))
         = {i \in 1..Len(catalog) : i <= ret.args[1]} \ UnimplementedLevels(catalog)

\* Level 3 is not implemented and bound to a class whose constructor throws;
\* calculateVectorSum returned, with levels 1 and 2 active.
C6_Witness ==
  /\ ~catalog[3].implemented
  /\ catalog[3].motionClass = "FaultyMotion"
  /\ Returned("calculateVectorSum")
  /\ ret.args[4] = 8
  /\ ret.outcome.value.motionVectors[3].implemented = FALSE
  /\ Len(ret.outcome.value.activeVectors) = 6

(***************************************************************************)
(* Properties of the registry queries (Spec)                               *)
(***************************************************************************)
\* C11: getLevelsUpTo(maxLevel) returns exactly the catalog entries with
\* level <= maxLevel in catalog order (none below 1, all 8 from 8 on), and
\* getCosmicLevelByNumber(n) returns the one entry whose level is n for
\* n in 1..8 and undefined for any other n.
C11_QueriesSelectByLevel ==
  /\ Returned("getLevelsUpTo") =>
       LET m == ret.args[1]
           v == ret.outcome.value
           kept == {i \in 1..Len(catalog) : catalog[i].level <= m}
       IN  /\ Len(v) = Cardinality(kept)
           /\ \A k \in 1..Len(v) : k \in kept /\ v[k] = catalog[k]
           /\ \A k \in 1..(Len(v) - 1) : v[k].level < v[k + 1].level
           /\ (m < 1 => v = <<>>)
           /\ (m >= 8 => v = catalog /\ Len(v) = 8)
  /\ Returned("getCosmicLevelByNumber") =>
       LET n == ret.args[1]
           v == ret.outcome.value
       IN  IF n \in 1..8
           THEN /\ v.level = n
                /\ Cardinality({i \in 1..Len(catalog) : catalog[i].level = n}) = 1
                /\ v \in Range(catalog)
           ELSE v = Undefined

\* getLevelsUpTo(3) returned levels 1, 2, 3.
C11_Witness ==
  /\ Returned("getLevelsUpTo")
  /\ ret.args[1] = 3
  /\ LevelsOf(ret.outcome.value) = <<1, 2, 3>>

(***************************************************************************)
(* Properties of the Coordinates functions and of EarthRotation.getVelocity *)
(* (SpecCoord)                                                             *)
(***************************************************************************)
\* C12: hourAngle(lst, ra) is lst - ra when that difference is >= 0 and
\* lst - ra + 360 otherwise, and for lst and ra in [0, 360) the result is in
\* [0, 360); hourAngle(100, 50) = 50, hourAngle(50, 100) = 310 and
\* hourAngle(180, 180) = 0.
C12_HourAngleInRange ==
  Returned("Coordinates.hourAngle") =>
    LET lst == ret.args[1]
        ra == ret.args[2]
        v == ret.outcome.value
    IN  /\ v = IF Fl(lst - ra, 1) >= 0 THEN Fl(lst - ra, 1)
               ELSE Fl(Fl(lst - ra, 1) + 360 * Quanta, 1)
        /\ 0 <= v /\ v < 360 * Quanta
        /\ (lst = 100 * Quanta /\ ra = 50 * Quanta => v = 50 * Quanta)
        /\ (lst = 50 * Quanta /\ ra = 100 * Quanta => v = 310 * Quanta)
        /\ (lst = 180 * Quanta /\ ra = 180 * Quanta => v = 0)

\* C13: localSiderealTime(d, lon) is in [0, 360) for every d and lon, also
\* where the unwrapped angle 280.46061837 + 360.98564736629 * d + lon is
\* negative (dates before J2000, western longitudes).
C13_SiderealTimeInRange ==
  Returned("Coordinates.localSiderealTime") =>
    /\ ret.outcome.value # NaN
    /\ 0 <= ret.outcome.value
    /\ ret.outcome.value < 360 * Quanta

\* A date before J2000 and a western longitude whose unwrapped angle is
\* negative and no multiple of 360, wrapped into (0, 360).
C13_Witness ==
  /\ Returned("Coordinates.localSiderealTime")
  /\ ret.args[1] < 0
  /\ ret.args[2] < 0
  /\ SiderealAngle(ret.args[1], ret.args[2]) < 0
  /\ JsRem(SiderealAngle(ret.args[1], ret.args[2]), 360 * Quanta) < 0
  /\ ret.outcome.value > 0
  /\ ret.outcome.value < 360 * Quanta

\* C14: daysSinceJ2000(t) is (t - epoch) / 86400000 with epoch the instant
\* 2000-01-01T12:00 UTC: exactly 0 at that instant, exactly 1 at
\* 2000-01-02T12:00 UTC and exactly 366 at 2001-01-01T12:00 UTC, whatever
\* the host's timezone offset.
C14_DaysSinceUtcEpoch ==
  (Returned("Coordinates.daysSinceJ2000") /\ ret.args[1] # InvalidDate) =>
    /\ ret.outcome.value =
         [days |-> ret.args[1] \div 24, hours24 |-> ret.args[1] % 24]
    /\ (ret.args[1] = 0 => ret.outcome.value = [days |-> 0, hours24 |-> 0])
    /\ (ret.args[1] = 24 => ret.outcome.value = [days |-> 1, hours24 |-> 0])
    /\ (ret.args[1] = 8784 => ret.outcome.value = [days |-> 366, hours24 |-> 0])

\* C15: calculateAzimuth returns a value in [0, 2 pi) for every hour angle:
\* the acos value when sin(hourAngle) is negative, 2 pi minus the acos value
\* when it is positive, and a value in range on the meridian too.
C15_AzimuthInRange ==
  Returned("Coordinates.calculateAzimuth") =>
    LET az == MathAcosRatio(MathSin(ret.args[2]), 1)
        v == ret.outcome.value
    IN  /\ v # NaN
        /\ 0 <= v /\ v < 4
        /\ (MathSin(ret.args[4]) < 0 => v = az)
        /\ (MathSin(ret.args[4]) > 0 => v = 4 - az)

\* C16: EarthRotation.getVelocity depends on the latitude only, never on the
\* longitude, and never increases as |latitude| grows over [0, 90]:
\* getVelocity(0) > getVelocity(45) > getVelocity(90) = 0.
C16_RotationSpeedFallsWithLatitude ==
  Returned("EarthRotation.getVelocity") =>
    LET lat == ret.args[1]
        v == ret.outcome.value
    IN  /\ \A l \in RotationLongitudes : EarthRotationGetVelocity(lat, l) = v
        /\ \A a \in Latitudes, l \in RotationLongitudes :
             Abs(a) <= Abs(lat) => EarthRotationGetVelocity(a, l) >= v
        /\ (lat = 0 => v > EarthRotationGetVelocity(45, 0))
        /\ (Abs(lat) = 45 => v > EarthRotationGetVelocity(90, 0))
        /\ (Abs(lat) = 90 => v = 0)

\* getVelocity(45, 90) returned 0.33 km/s, below the 0.47 km/s of the equator.
C16_Witness ==
  /\ Returned("EarthRotation.getVelocity")
  /\ ret.args = <<45, 90>>
  /\ ret.outcome.value = 330
  /\ EarthRotationGetVelocity(0, 0) = 470

(***************************************************************************)
(* Properties of the motion models under the calculation API (Spec)        *)
(***************************************************************************)
\* C17: with maxLevel = 1 the resultant of calculateVectorSum is the Earth
\* Rotation vector itself, for every observer and date: its magnitude is
\* EarthRotation.getVelocity(lat) (sqrt(v * v) for a v >= 0), its azimuth is
\* 90 degrees (atan2(x, 0) for an x > 0) and its altitude is 0 (asin(0 / m)
\* for an m > 0).
C17_RotationAloneIsTheResultant ==
  (HasVectorSumResult /\ ret.args[4] = 1) =>
    LET r == VectorSumResultOf(ret).resultant
        velocity == EarthRotationGetVelocity(ret.args[1], ret.args[2])
    IN  /\ r # Null
        /\ r.magnitude = [sqrtSumSq |-> <<velocity, 0, 0>>]
        /\ velocity >= 0
        /\ r.azimuth = [atan2 |-> <<velocity, 0>>]
        /\ velocity > 0
        /\ r.altitude = [asin |-> <<0, r.magnitude>>]

\* C19: EarthOrbit.getDirection returns, unchanged, the azimuth and the
\* altitude that Coordinates.equatorialToHorizontal yields for the ecliptic
\* apex (altitude positive above the horizon).
C19_OrbitDirectionIsHorizontal ==
  Returned("calculateMotionVectors") =>
    LET direction == ret.outcome.value[2].direction
        horizontal == ApexHorizontal(ret.args[1], ret.args[2], ret.args[3])
    IN  /\ direction.azimuth = horizontal.azimuth
        /\ direction.altitude = horizontal.altitude

\* C20: level 1 is bound to EarthRotation, level 2 to EarthOrbit and levels
\* 3..8 to CosmicMotion, and for every level 2..8, observer and date the
\* velocity calculateMotionVectors reports is the catalog entry's velocity
\* (29.8 km/s for EarthOrbit).
C20_ReportedVelocityIsConfigured ==
  /\ catalog[1].motionClass = "EarthRotation"
  /\ catalog[2].motionClass = "EarthOrbit"
  /\ \A i \in 3..8 : catalog[i].motionClass = "CosmicMotion"
  /\ Returned("calculateMotionVectors") =>
       /\ \A i \in 2..8 :
            /\ ret.outcome.value[i].level = i
            /\ ret.outcome.value[i].velocity = COSMIC_LEVELS[i].velocity
       /\ ret.outcome.value[2].velocity = 29800

\* calculateMotionVectors at the pole reported 29.8 km/s for level 2 and
\* 220 km/s for level 3.
C20_Witness ==
  /\ Returned("calculateMotionVectors")
  /\ ret.args = <<90, 0, 0>>
  /\ ret.outcome.value[2].velocity = 29800
  /\ ret.outcome.value[3].velocity = 220000
  /\ ret.outcome.value[8].velocity = 369820

(***************************************************************************)
(* Properties of getVectors (SpecCopy)                                     *)
(***************************************************************************)
\* C18: getVectors() returns the held vectors in insertion order, and no
\* step in which the caller gets or changes the returned value changes the
\* vectors the VectorSum holds or its resultant.
C18_GetVectorsIsDefensiveCopy ==
  [][ret' # ret =>
       /\ (ret'.fn = "getVectors" =>
             Deref(vectorSum, ret'.outcome.value) = vectorSum.vectors)
       /\ vectorSum'.vectors = vectorSum.vectors
       /\ vectorSum'.resultant = vectorSum.resultant]_vars

(***************************************************************************)
(* Properties of calculateCelestialPositions (Spec)                        *)
(***************************************************************************)
\* C21: whenever calculateCelestialPositions returns, the Sun's and the
\* Moon's azimuth are the azimuth SunCalc gave plus pi (two quarter turns),
\* and their altitudes are the altitudes SunCalc gave.
C21_SunAndMoonTurnedByPi ==
  Returned("calculateCelestialPositions") =>
    LET lat  == ret.args[1]
        lon  == ret.args[2]
        date == ret.args[3]
        sunLoc  == SunCalcGetPosition(date, lat, lon)
        moonLoc == SunCalcGetMoonPosition(date, lat, lon)
        out == ret.outcome.value
    IN  /\ out.sun.azimuth = sunLoc.azimuth + 2
        /\ out.sun.altitude = sunLoc.altitude
        /\ out.moon.azimuth = moonLoc.azimuth + 2
        /\ out.moon.altitude = moonLoc.altitude

\* The call returned for an evening Sun, a quarter turn west of south, which
\* comes out three quarter turns from north.
C21_Witness ==
  /\ Returned("calculateCelestialPositions")
  /\ SunCalcGetPosition(ret.args[3], ret.args[1], ret.args[2]).azimuth = 1
  /\ ret.outcome.value.sun.azimuth = 3
  /\ ret.outcome.value.moon.azimuth = 2

(***************************************************************************)
(* Properties of the hour angle in EarthOrbit.getDirection (SpecCoord)     *)
(***************************************************************************)
\* C22: for a local sidereal time and a right ascension in [0, 2 pi), the
\* hour angle EarthOrbit.getDirection hands to equatorialToHorizontal lies
\* in [-pi, pi] (in quarter turns, in -2..2).
C22_OrbitHourAngleNormalized ==
  ret.fn = "EarthOrbit.getDirection: ha" =>
    /\ ret.outcome.value >= 0 - 2
    /\ ret.outcome.value <= 2

(***************************************************************************)
(* Properties of LevelManager (SpecFrame, SpecLevels)                      *)
(***************************************************************************)
\* C23: maxLevel is always in 1..8; it is 8 until a level is first asked
\* for, and from then on it is the level last asked for (by setMaxLevel(n),
\* or by reset(), which asks for 6) brought into 1..8; isLevelActive(k)
\* answers k <= maxLevel and getActiveLevels() answers getLevelsUpTo(maxLevel).
C23_MaxLevelIsLastRequestClamped ==
  /\ lmMaxLevel \in 1..8
  /\ lmTrace = NoTrace => lmMaxLevel = 8
  /\ lmTrace # NoTrace =>
       lmMaxLevel = IF lmTrace.requested < 1 THEN 1
                    ELSE IF lmTrace.requested > 8 THEN 8 ELSE lmTrace.requested
  /\ ret.fn = "LevelManager.isLevelActive" =>
       ret.outcome.value = (ret.args[1] <= ret.args[2])
  /\ ret.fn = "LevelManager.getActiveLevels" =>
       ret.outcome.value = getLevelsUpTo(catalog, ret.args[1])

\* setMaxLevel(0) left maxLevel at 1, and isLevelActive(8) then answered
\* false.
C23_Witness ==
  /\ lmTrace # NoTrace
  /\ lmTrace.requested = 0
  /\ lmMaxLevel = 1
  /\ ret.fn = "LevelManager.isLevelActive"
  /\ ret.args = <<8, 1>>
  /\ ret.outcome.value = FALSE

C26_ResetRestoresDefaults ==
  [][LMReset => (lmMaxLevel' = 8 /\ lmUIVisible' = FALSE)]_vars

(***************************************************************************)
(* Properties of getResultant and getSummary (SpecVS)                      *)
(***************************************************************************)
\* C27: getResultant() is null exactly while no vector is held (after
\* construction and after clear()) and an object after every addVector;
\* getSummary() is {vectorCount: 0, resultant: null} while there is no
\* resultant and otherwise counts the vectors held; and the resultant sums
\* the vectors held, which are those added since the last clear().
C27_ResultantAndSummaryFollowVectors ==
  /\ (Len(vectorSum.vectors) = 0) <=> (getResultant(vectorSum) = Null)
  /\ getResultant(vectorSum) = Null =>
       getSummary(vectorSum) = [vectorCount |-> 0, resultant |-> Null]
  /\ getResultant(vectorSum) # Null =>
       /\ getSummary(vectorSum).vectorCount = Len(vectorSum.vectors)
       /\ getSummary(vectorSum).resultant # Null
       /\ getResultant(vectorSum).cartesian = HeldSum(vectorSum)

\* Two vectors that cancel are held: there is a resultant, and the summary
\* counts two vectors.
C27_Witness ==
  /\ Len(vectorSum.vectors) = 2
  /\ HeldSum(vectorSum) = ZeroVector
  /\ vectorSum.vectors[1].magnitude = 1
  /\ getResultant(vectorSum) # Null
  /\ getSummary(vectorSum).vectorCount = 2

(***************************************************************************)
(* Properties of DeviceOrientation (SpecCalibration)                       *)
(***************************************************************************)
\* C28: once calibration is started, an event whose heading is missing, NaN
\* or 0 only adds one to compassAttempts and leaves isCalibrated false and
\* onReady uncalled; the first event with another heading calls onReady,
\* for the first and only time, with that heading, sets isCalibrated and
\* removes the listener; an event dispatched while the listener is not
\* registered changes nothing.
C28_OnReadyOnceOnFirstHeading ==
  [][\A evt \in OrientationEvents : DispatchOrientation(evt) =>
       LET usable == /\ "webkitCompassHeading" \in DOMAIN evt
                     /\ evt.webkitCompassHeading # NaN
                     /\ evt.webkitCompassHeading # 0
       IN  IF deviceOrientation.listening /\ ~usable
           THEN /\ deviceOrientation'.compassAttempts
                     = deviceOrientation.compassAttempts + 1
                /\ ~deviceOrientation'.isCalibrated
                /\ deviceOrientation'.readyCalls = <<>>
                /\ deviceOrientation'.listening
           ELSE IF deviceOrientation.listening
           THEN /\ deviceOrientation.readyCalls = <<>>
                /\ deviceOrientation'.readyCalls
                     = <<[callback |-> deviceOrientation.onReadyCallback,
                          heading |-> evt.webkitCompassHeading]>>
                /\ deviceOrientation'.isCalibrated
                /\ ~deviceOrientation'.listening
           ELSE /\ deviceOrientation'.readyCalls = deviceOrientation.readyCalls
                /\ deviceOrientation'.compassAttempts
                     = deviceOrientation.compassAttempts
                /\ deviceOrientation'.isCalibrated = deviceOrientation.isCalibrated
                /\ ~deviceOrientation'.listening]_vars

\* Two events without a usable heading, then heading 270, then two more
\* events: onReady was called once, with 270, at the third attempt.
C28_Witness ==
  /\ deviceOrientation.isCalibrated
  /\ deviceOrientation.compassAttempts = 3
  /\ deviceOrientation.events = 5
  /\ deviceOrientation.readyCalls
       = <<[callback |-> "handleDeviceReady", heading |-> 270]>>
  /\ ~deviceOrientation.listening

(***************************************************************************)
(* Properties of waitForTextureUpdate (SpecTextureFair)                    *)
(***************************************************************************)
\* C29: with a skybox, the callback is called once in the end and never
\* twice: with true when a check found the hi-res texture before the
\* fallback timer fired, with false by the fallback timer otherwise (and
\* then by nothing else); and a check that runs after either outcome
\* counts nothing and sets no further timer.
C29_CallbackExactlyOnce ==
  /\ [](Len(textureWait.callbacks) <= 1)
  /\ [][FallbackTimeoutFires =>
          textureWait'.callbacks = IF textureWait.timeoutTriggered
                                   THEN textureWait.callbacks ELSE <<FALSE>>]_vars
  /\ [][HiResTimeoutFires => textureWait'.callbacks = <<TRUE>>]_vars
  /\ [][(CheckTextureFires /\ textureWait.timeoutTriggered) =>
          /\ textureWait'.checkCount = textureWait.checkCount
          /\ ~textureWait'.checkPending]_vars
  /\ textureWait.hiResPending ~> (textureWait.callbacks = <<TRUE>>)
  /\ textureWait.fallbackPending ~> (Len(textureWait.callbacks) = 1)

\* The third check found the hi-res texture, the fallback timer fired after
\* that and called nothing, and the callback got true.
C29_Witness ==
  /\ textureWait.checkCount = 3
  /\ textureWait.timeoutTriggered
  /\ ~textureWait.fallbackPending
  /\ ~textureWait.checkPending
  /\ textureWait.callbacks = <<TRUE>>

(***************************************************************************)
(* Properties of VisualizationModeManager (SpecModes)                      *)
(***************************************************************************)
\* C30: after every registerMode, enableMode, disableMode and toggleMode and
\* between animation frames, animationFrameId is non-null exactly when an
\* active mode needs animation, the browser then has that one frame
\* callback pending and otherwise none, and every active mode is registered.
C30_LoopRunsIffAnimatedModeActive ==
  /\ (modeManager.animationFrameId # 0)
       <=> (\E name \in modeManager.activeModes : name = "particles")
  /\ Cardinality(modeManager.scheduled) <= 1
  /\ modeManager.scheduled = IF modeManager.animationFrameId = 0 THEN {}
                             ELSE {modeManager.animationFrameId}
  /\ modeManager.activeModes \subseteq modeManager.modes

\* The particles mode was enabled, a frame ran, and the mode was disabled
\* while the markers mode stayed active: the loop is stopped.
C30_Witness ==
  /\ modeManager.activeModes = {"markers"}
  /\ "particles" \in modeManager.modes
  /\ modeManager.frames = 2
  /\ modeManager.animationFrameId = 0
  /\ modeManager.scheduled = {}

====
